---- MODULE Spec2Model ----
(***************************************************************************)
(* A model of scripts/specctl.py: the file-backed task tracker.  The state *)
(* is what lives under .spec/ (task and epic metadata, SESSION.yaml,       *)
(* PROGRESS.md) plus the output of the last command.  One action per CLI   *)
(* command; the pure helpers (would_create_cycle, get_ready_tasks,         *)
(* get_blocked_tasks, validate's has_cycle) are operators computed the way *)
(* the code computes them.                                                 *)
(*                                                                         *)
(* Scope of the model:                                                     *)
(*  - a task file is named after its id: the id field is absent or equal   *)
(*    to the file stem (as in tests/test_specctl.py and as every command   *)
(*    assumes when it opens tasks/<id>.md);                                *)
(*  - a blocked-by value is a list (a scalar string is read as the         *)
(*    one-element list by every reader of the field);                      *)
(*  - timestamps (now_iso, now_log) are left out of entries and fields;    *)
(*  - of the fields a command does not set, title is kept as the text the  *)
(*    parser loads, so that the rewrite of the whole file by               *)
(*    update_frontmatter shows; id, priority and epic are plain words.     *)
(***************************************************************************)
EXTENDS Integers, Sequences, FiniteSets, TLC

VARIABLES
    specDir,        \* BOOLEAN: .spec/ exists
    files,          \* set of task stems T with a file tasks/T.md
    idField,        \* [Tasks -> id or NoValue]: the id metadata field
    status,         \* [Tasks -> status or NoValue]
    priority,       \* [Tasks -> priority or NoValue]
    epic,           \* [Tasks -> epic id or NoValue]: the epic metadata field
    blockedBy,      \* [Tasks -> Seq(Ids)]: the blocked-by list
    discoveredFrom, \* [Tasks -> Seq(Ids)]: the discovered-from list
    doneFields,     \* [Tasks -> SUBSET DoneKeys]: done-* keys present
    title,          \* [Tasks -> value]: the title field as parse_frontmatter loads it
    reqs,           \* set of requirement stems R with a file reqs/R.md
    epicFiles,      \* set of epic ids E with a file epics/E.md
    epicStatus,     \* [Epics -> status or NoValue]
    epicTasks,      \* [Epics -> Seq(Ids)]: the epic's tasks list
    session,        \* SESSION.yaml: [task, step, base], NoSession when absent
    progress,       \* PROGRESS.md: sequence of <<action, target>>, newest last
    history,        \* every entry ever appended to PROGRESS.md (history variable)
    out,            \* what the last command printed and its exit status
    document,       \* a metadata mapping and body in memory, NoDocument when none
    loaded,         \* what parse_frontmatter returned for the serialized document
    calls           \* [Procs -> call]: invocations running step by step

taskVars == <<idField, status, priority, epic, blockedBy, discoveredFrom, doneFields, title>>
epicVars == <<epicFiles, epicStatus, epicTasks>>
fsVars == <<specDir, files>>
logVars == <<progress, history>>
diskVars == <<fsVars, reqs, taskVars, epicVars, session, progress>>
\* what a command run as one step never touches besides .spec/ itself
frameVars == <<fsVars, reqs, document, loaded, calls>>
vars == <<frameVars, taskVars, epicVars, session, logVars, out>>

(***************************************************************************)
(* The universe of the model.                                              *)
(***************************************************************************)
Tasks == {"T1", "T2", "T3"}
Missing == "TX"
Ids == Tasks \cup {Missing}
Epics == {"E1", "E2"}
MissingEpic == "EX"
NoValue == "none"
TaskOrder == <<"T1", "T2", "T3">>
EpicOrder == <<"E1", "E2">>

TASK_STATUS == <<"todo", "in_progress", "done">>
EPIC_STATUS == <<"open", "done">>
SESSION_STEPS == <<"planning", "implementing", "testing", "reviewing", "completing">>
Priorities == {"critical", "normal", "low", "high", NoValue}
DoneKeys == {"done-at", "done-summary", "done-files", "done-commits", "done-tests"}
LogCap == 10

Range(s) == {s[i] : i \in 1..Len(s)}
InSeq(x, s) == \E i \in 1..Len(s) : s[i] = x

NoSession == [task |-> NoValue, step |-> NoValue, base |-> NoValue]
NoOutput == [exit |-> 0, msg |-> "", target |-> NoValue, ids |-> <<>>, blocked |-> <<>>]

(***************************************************************************)
(* YAML frontmatter.  A text is a sequence of one-character strings, a     *)
(* file's content is the lines between the two --- fences and the text     *)
(* after the second fence; no text of the model holds a newline or ---, so *)
(* split("---", 2) and split("\n") find exactly the fences and the lines   *)
(* the serializer joined.  A metadata mapping is the sequence of its       *)
(* <<key, value>> items in insertion order; a value carries its Python     *)
(* type.                                                                   *)
(***************************************************************************)
Whitespace == {" "}
Quotes == {"\"", "'"}

StrValue(x) == [type |-> "str", v |-> <<x>>]
BoolValue(b) == [type |-> "bool", v |-> << <<b>> >>]
ListValue(xs) == [type |-> "list", v |-> xs]

RECURSIVE lstrip(_, _)
lstrip(s, cs) == IF s # <<>> /\ Head(s) \in cs THEN lstrip(Tail(s), cs) ELSE s

RECURSIVE rstrip(_, _)
rstrip(s, cs) ==
    IF s # <<>> /\ s[Len(s)] \in cs THEN rstrip(SubSeq(s, 1, Len(s) - 1), cs) ELSE s

strip(s, cs) == rstrip(lstrip(s, cs), cs)

startswith(s, p) == Len(s) >= Len(p) /\ SubSeq(s, 1, Len(p)) = p
endswith(s, p) == Len(s) >= Len(p) /\ SubSeq(s, Len(s) - Len(p) + 1, Len(s)) = p

\* s.partition(c): the text before the first c and the text after it
partition(s, c) ==
    LET i == CHOOSE k \in 1..Len(s) : s[k] = c /\ \A j \in 1..(k - 1) : s[j] # c
    IN  <<SubSeq(s, 1, i - 1), SubSeq(s, i + 1, Len(s))>>

\* s.split(c)
RECURSIVE split(_, _)
split(s, c) ==
    IF ~InSeq(c, s)
    THEN <<s>>
    ELSE <<partition(s, c)[1]>> \o split(partition(s, c)[2], c)

\* metadata[key] = value on an insertion-ordered dict
dict_set(metadata, key, value) ==
    IF \E i \in 1..Len(metadata) : metadata[i][1] = key
    THEN [i \in 1..Len(metadata) |->
             IF metadata[i][1] = key THEN <<key, value>> ELSE metadata[i]]
    ELSE Append(metadata, <<key, value>>)

dict_has(metadata, key) == \E i \in 1..Len(metadata) : metadata[i][1] = key
dict_get(metadata, key) == metadata[CHOOSE i \in 1..Len(metadata) : metadata[i][1] = key][2]

RECURSIVE ConcatLines(_)
ConcatLines(ss) == IF ss = <<>> THEN <<>> ELSE Head(ss) \o ConcatLines(Tail(ss))

\* str(value).lower() of a bool
bool_text(value) ==
    IF value.v[1][1] = "True" THEN <<"t", "r", "u", "e">> ELSE <<"f", "a", "l", "s", "e">>

\* the lines serialize_frontmatter emits for one item
item_lines(key, value) ==
    IF value.type = "list"
    THEN IF value.v = <<>>
         THEN <<key \o <<":", " ", "[", "]">> >>
         ELSE <<key \o <<":">> >> \o [i \in 1..Len(value.v) |-> <<" ", " ", "-", " ">> \o value.v[i]]
    ELSE IF value.type = "bool"
    THEN <<key \o <<":", " ">> \o bool_text(value)>>
    ELSE <<key \o <<":", " ">> \o value.v[1]>>

\* serialize_frontmatter: "---", the item lines, "---", "", body
serialize_frontmatter(metadata, body) ==
    [lines |-> ConcatLines([i \in 1..Len(metadata) |-> item_lines(metadata[i][1], metadata[i][2])]),
     body |-> body]

\* [item.strip().strip("\"'") for item in value[1:-1].split(",") if item.strip()]
inline_list(value) ==
    LET items == split(SubSeq(value, 2, Len(value) - 1), ",")
        kept == SelectSeq(items, LAMBDA item : strip(item, Whitespace) # <<>>)
    IN  [i \in 1..Len(kept) |-> strip(strip(kept[i], Whitespace), Quotes)]

\* parts[1].strip().split("\n"): blank lines at either end go, the first
\* line loses its leading and the last its trailing whitespace
RECURSIVE drop_blank_head(_)
drop_blank_head(lines) ==
    IF lines # <<>> /\ strip(Head(lines), Whitespace) = <<>>
    THEN drop_blank_head(Tail(lines))
    ELSE lines

RECURSIVE drop_blank_tail(_)
drop_blank_tail(lines) ==
    IF lines # <<>> /\ strip(lines[Len(lines)], Whitespace) = <<>>
    THEN drop_blank_tail(SubSeq(lines, 1, Len(lines) - 1))
    ELSE lines

yaml_lines(lines) ==
    LET kept == drop_blank_tail(drop_blank_head(lines))
    IN  IF kept = <<>>
        THEN << <<>> >>
        ELSE [i \in 1..Len(kept) |->
                 LET l == IF i = 1 THEN lstrip(kept[i], Whitespace) ELSE kept[i]
                 IN  IF i = Len(kept) THEN rstrip(l, Whitespace) ELSE l]

\* the loop of parse_frontmatter over the lines; current_key <<>> is None
\* (`if current_key` is false for None and for the empty key alike)
RECURSIVE parse_lines(_, _, _, _, _)
parse_lines(lines, i, metadata, current_key, current_list) ==
    IF i > Len(lines)
    THEN IF current_key # <<>> /\ current_list # <<>>
         THEN dict_set(metadata, current_key, ListValue(current_list))
         ELSE metadata
    ELSE LET line == rstrip(lines[i], Whitespace)
             saved == current_key # <<>> /\ current_list # <<>>
             md == IF saved THEN dict_set(metadata, current_key, ListValue(current_list)) ELSE metadata
             ck == IF saved THEN <<>> ELSE current_key
             cl == IF saved THEN <<>> ELSE current_list
         IN  IF startswith(line, <<" ", " ", "-", " ">>)
             THEN parse_lines(lines, i + 1, metadata, current_key,
                              IF current_key # <<>>
                              THEN Append(current_list, strip(SubSeq(line, 5, Len(line)), Whitespace))
                              ELSE current_list)
             ELSE IF ~InSeq(":", line)
             THEN parse_lines(lines, i + 1, md, ck, cl)
             ELSE LET key == strip(partition(line, ":")[1], Whitespace)
                      value == strip(partition(line, ":")[2], Whitespace)
                  IN  IF value = <<>>
                      THEN parse_lines(lines, i + 1, md, key, cl)
                      ELSE IF startswith(value, <<"[">>) /\ endswith(value, <<"]">>)
                      THEN parse_lines(lines, i + 1, dict_set(md, key, ListValue(inline_list(value))), ck, cl)
                      ELSE parse_lines(lines, i + 1, dict_set(md, key, StrValue(strip(value, Quotes))), ck, cl)

\* parse_frontmatter of a content with both fences
parse_frontmatter(content) ==
    [metadata |-> parse_lines(yaml_lines(content.lines), 1, <<>>, <<>>, <<>>),
     body |-> strip(content.body, Whitespace)]

\* a key the file does not hold
AbsentValue == [type |-> "absent", v |-> <<>>]
TitleKey == <<"t", "i", "t", "l", "e">>

\* update_frontmatter on a field it is not asked to update: the value is
\* parsed, serialized and, at the next load, parsed again
rewrite(value) ==
    LET metadata == IF value = AbsentValue THEN <<>> ELSE << <<TitleKey, value>> >>
        reread == parse_frontmatter(serialize_frontmatter(metadata, <<>>)).metadata
    IN  IF dict_has(reread, TitleKey) THEN dict_get(reread, TitleKey) ELSE AbsentValue

PlainTitle == StrValue(<<"a">>)
NoDocument == [metadata |-> <<>>, body |-> <<"-">>]

(***************************************************************************)
(* Entity repository.                                                      *)
(***************************************************************************)
\* Mutant: no default; a file without the id field has no usable id.
load_task_id_no_default(t) == idField[t]

\* load_task: the id is the id field, defaulting to the file stem.
load_task_id(t) == IF idField[t] = NoValue THEN t ELSE idField[t]

\* find_tasks: the glob over tasks/, optionally filtered by the epic field.
\* The glob is not sorted; TaskOrder stands for the order it yields.
\* `if epic_id:` is false for None, so NoValue means no filter.
find_tasks(epic_id) ==
    LET all == SelectSeq(TaskOrder, LAMBDA t : t \in files)
    IN  IF epic_id # NoValue
        THEN SelectSeq(all, LAMBDA t : epic[t] = epic_id)
        ELSE all

\* task_map.get(tid) in would_create_cycle: the task whose id is tid.
task_map_has(tid) == \E t \in files : load_task_id(t) = tid
task_map_get(tid) == CHOOSE t \in files : load_task_id(t) = tid

\* get_deps: the blocked-by list of the task with that id, [] when unknown.
get_deps(tid) == IF task_map_has(tid) THEN blockedBy[task_map_get(tid)] ELSE <<>>

(***************************************************************************)
(* would_create_cycle: DFS from new_dep_id over blocked-by edges, skipping *)
(* a dependency that is already on the path of ancestors; reaching task_id *)
(* returns the path.  NoPath is Python's None.                             *)
(***************************************************************************)
NoPath == <<>>

RECURSIVE dfs_existing_edges(_, _, _)
RECURSIVE dfs_existing_loop(_, _, _, _, _)
\* the search without the `if current == task_id: deps = deps + [new_dep_id]`
\* lines: from the candidate over the edges that exist
dfs_existing_edges(task_id, current, path) ==
    IF current = task_id
    THEN Append(path, current)
    ELSE dfs_existing_loop(task_id, current, path, get_deps(current), 1)

dfs_existing_loop(task_id, current, path, deps, i) ==
    IF i > Len(deps)
    THEN NoPath
    ELSE IF InSeq(deps[i], path)
         THEN dfs_existing_loop(task_id, current, path, deps, i + 1)
         ELSE LET result == dfs_existing_edges(task_id, deps[i], Append(path, current))
              IN  IF result # NoPath
                  THEN result
                  ELSE dfs_existing_loop(task_id, current, path, deps, i + 1)

RECURSIVE dfs(_, _, _, _)
RECURSIVE dfs_loop(_, _, _, _, _, _)
\* dfs(current, path), closed over task_id and new_dep_id
dfs(task_id, new_dep_id, current, path) ==
    IF current = task_id
    THEN Append(path, current)
    ELSE LET deps == IF current = task_id
                     THEN get_deps(current) \o <<new_dep_id>>
                     ELSE get_deps(current)
         IN  dfs_loop(task_id, new_dep_id, current, path, deps, 1)

\* for dep in deps
dfs_loop(task_id, new_dep_id, current, path, deps, i) ==
    IF i > Len(deps)
    THEN NoPath
    ELSE IF InSeq(deps[i], path)
         THEN dfs_loop(task_id, new_dep_id, current, path, deps, i + 1)
         ELSE LET result == dfs(task_id, new_dep_id, deps[i], Append(path, current))
              IN  IF result # NoPath
                  THEN result
                  ELSE dfs_loop(task_id, new_dep_id, current, path, deps, i + 1)

\* Mutant: looks only at new_dep_id and its direct dependencies.
would_create_cycle_shallow(task_id, new_dep_id) ==
    IF new_dep_id = task_id
    THEN <<new_dep_id>>
    ELSE IF InSeq(task_id, get_deps(new_dep_id))
         THEN <<new_dep_id, task_id>>
         ELSE NoPath

\* Mutant: searches from the dependencies of new_dep_id, not from it.
would_create_cycle_below(task_id, new_dep_id) ==
    dfs_loop(task_id, new_dep_id, new_dep_id, <<>>, get_deps(new_dep_id), 1)

would_create_cycle(task_id, new_dep_id) == dfs(task_id, new_dep_id, new_dep_id, <<>>)

(***************************************************************************)
(* Readiness.                                                              *)
(***************************************************************************)
\* Mutant: the ids of the tasks that are not done.
done_ids_inverted(tasks) == {load_task_id(tasks[i]) : i \in {j \in 1..Len(tasks) : status[tasks[j]] # "done"}}

\* Mutant: a started task counts as done.
done_ids_started(tasks) ==
    {load_task_id(tasks[i]) : i \in {j \in 1..Len(tasks) : status[tasks[j]] \in {"in_progress", "done"}}}

\* done_ids: ids of the enumerated tasks whose status is done.
done_ids(tasks) == {load_task_id(tasks[i]) : i \in {j \in 1..Len(tasks) : status[tasks[j]] = "done"}}

\* Mutant: an id no task carries is not counted as unmet.
unmet_deps_known(t, done) == SelectSeq(blockedBy[t], LAMBDA b : task_map_has(b) /\ b \notin done)

\* unmet = [b for b in blocked_by if b not in done_ids]
unmet_deps(t, done) == SelectSeq(blockedBy[t], LAMBDA b : b \notin done)

\* Mutant: a priority outside the table sorts after low.
priority_rank_unknown_last(p) ==
    CASE p = "critical" -> 0
      [] p = "normal" -> 1
      [] p = "low" -> 2
      [] OTHER -> 3

\* priority_order.get(priority or "normal", 1)
priority_rank(p) ==
    CASE p = "critical" -> 0
      [] p = "normal" -> 1
      [] p = "low" -> 2
      [] OTHER -> 1

\* list.sort(key=...): a stable sort, here by insertion from the left.
RECURSIVE insert_by_rank(_, _)
insert_by_rank(sorted, t) ==
    IF sorted = <<>>
    THEN <<t>>
    ELSE IF priority_rank(priority[sorted[Len(sorted)]]) <= priority_rank(priority[t])
         THEN Append(sorted, t)
         ELSE Append(insert_by_rank(SubSeq(sorted, 1, Len(sorted) - 1), t), sorted[Len(sorted)])

RECURSIVE sort_by_priority(_)
sort_by_priority(s) ==
    IF s = <<>>
    THEN <<>>
    ELSE insert_by_rank(sort_by_priority(SubSeq(s, 1, Len(s) - 1)), s[Len(s)])

\* Mutant: the status of the task itself is not looked at.
get_ready_tasks_any_status(epic_id) ==
    LET tasks == find_tasks(epic_id)
        done == done_ids(tasks)
    IN  sort_by_priority(SelectSeq(tasks, LAMBDA t : unmet_deps(t, done) = <<>>))

\* get_ready_tasks: todo tasks of the enumeration with no unmet blocker,
\* sorted by priority.  The result is the sequence of task stems.
get_ready_tasks(epic_id) ==
    LET tasks == find_tasks(epic_id)
        done == done_ids(tasks)
        ready == SelectSeq(tasks, LAMBDA t : status[t] = "todo" /\ unmet_deps(t, done) = <<>>)
    IN  sort_by_priority(ready)

\* get_blocked_tasks: todo tasks of the enumeration with an unmet blocker,
\* each paired with its unmet blockers.
get_blocked_tasks(epic_id) ==
    LET tasks == find_tasks(epic_id)
        done == done_ids(tasks)
        blocked == SelectSeq(tasks, LAMBDA t : status[t] = "todo" /\ unmet_deps(t, done) # <<>>)
    IN  [i \in 1..Len(blocked) |-> <<blocked[i], unmet_deps(blocked[i], done)>>]

(***************************************************************************)
(* validate: the findings of cmd_validate, in the order the code appends   *)
(* them.  A finding is <<kind, owner id, reference>>.                      *)
(***************************************************************************)
RECURSIVE ConcatAll(_)
ConcatAll(ss) == IF ss = <<>> THEN <<>> ELSE Head(ss) \o ConcatAll(Tail(ss))

\* per task: missing status, then each blocked-by entry with no file tasks/<dep>.md
task_issues(t) ==
    LET dangling == SelectSeq(blockedBy[t], LAMBDA d : d \notin files)
    IN  (IF status[t] = NoValue THEN << <<"missing_status", load_task_id(t), NoValue>> >> ELSE <<>>)
        \o [i \in 1..Len(dangling) |-> <<"dangling_blocked_by", load_task_id(t), dangling[i]>>]

\* per epic: missing status, then each tasks entry with no file tasks/<ref>.md
epic_issues(e) ==
    LET dangling == SelectSeq(epicTasks[e], LAMBDA d : d \notin files)
    IN  (IF epicStatus[e] = NoValue THEN << <<"missing_status", e, NoValue>> >> ELSE <<>>)
        \o [i \in 1..Len(dangling) |-> <<"dangling_epic_task", e, dangling[i]>>]

\* has_cycle(task_id, visited, path): three-colour DFS.  visited is mutated
\* in place by the code, so the model returns it with the verdict; path is
\* the set of ancestors (add on entry, remove on a False return).
RECURSIVE has_cycle(_, _, _)
RECURSIVE has_cycle_loop(_, _, _, _)
has_cycle(task_id, visited, path) ==
    IF task_id \in path
    THEN [found |-> TRUE, visited |-> visited]
    ELSE IF task_id \in visited
         THEN [found |-> FALSE, visited |-> visited]
         ELSE has_cycle_loop(get_deps(task_id), 1, visited \cup {task_id}, path \cup {task_id})

has_cycle_loop(deps, i, visited, path) ==
    IF i > Len(deps)
    THEN [found |-> FALSE, visited |-> visited]
    ELSE LET r == has_cycle(deps[i], visited, path)
         IN  IF r.found THEN r ELSE has_cycle_loop(deps, i + 1, r.visited, path)

\* Mutant: only the first enumerated task is searched from.
cycle_issues_first_only ==
    LET all == find_tasks(NoValue)
    IN  IF all # <<>> /\ has_cycle(load_task_id(all[1]), {}, {}).found
        THEN << <<"cycle", load_task_id(all[1]), NoValue>> >>
        ELSE <<>>

\* for task in all_tasks: if has_cycle(id, set(), set()): append one finding; break
cycle_issues ==
    LET all == find_tasks(NoValue)
        hits == SelectSeq(all, LAMBDA t : has_cycle(load_task_id(t), {}, {}).found)
    IN  IF hits = <<>> THEN <<>> ELSE << <<"cycle", load_task_id(hits[1]), NoValue>> >>

\* Mutant: the epics are not scanned.
validate_issues_tasks_only ==
    LET all == find_tasks(NoValue)
    IN  ConcatAll([i \in 1..Len(all) |-> task_issues(all[i])]) \o cycle_issues

validate_issues ==
    LET all == find_tasks(NoValue)
        epics == SelectSeq(EpicOrder, LAMBDA e : e \in epicFiles)
    IN  ConcatAll([i \in 1..Len(all) |-> task_issues(all[i])])
        \o ConcatAll([i \in 1..Len(epics) |-> epic_issues(epics[i])])
        \o cycle_issues

(***************************************************************************)
(* Session and progress log.                                               *)
(***************************************************************************)
\* load_session() is {} (falsy) when SESSION.yaml is absent
session_active == session # NoSession

\* session_start: task, step planning, and base_commit when `git rev-parse`
\* succeeds (git = "ok"); a CalledProcessError leaves the field out.
session_start(task_id, git) ==
    [task |-> task_id, step |-> "planning", base |-> IF git = "ok" THEN "c1" ELSE NoValue]

\* Mutant: the cap keeps the oldest lines.
log_progress_keep_oldest(lines, action, target) ==
    LET appended == Append(lines, <<action, target>>)
    IN  IF Len(appended) > LogCap
        THEN SubSeq(appended, 1, LogCap)
        ELSE appended

\* log_progress: append, keep the last 10 lines
log_progress(lines, action, target) ==
    LET appended == Append(lines, <<action, target>>)
    IN  IF Len(appended) > LogCap
        THEN SubSeq(appended, Len(appended) - LogCap + 1, Len(appended))
        ELSE appended

Log(action, target) ==
    /\ progress' = log_progress(progress, action, target)
    /\ history' = Append(history, <<action, target>>)

(***************************************************************************)
(* Command output: what the command printed and sys.exit's status.         *)
(***************************************************************************)
\* exit: the exit status; msg: which message was printed; target: the id a
\* success message names; ids: the list the message carries (ready ids,
\* cycle path, incomplete tasks, findings); blocked: `ready`'s blocked listing.
Output(exit, msg, target, ids) ==
    [exit |-> exit, msg |-> msg, target |-> target, ids |-> ids, blocked |-> <<>>]

\* error_exit before any write: nothing on disk changes
error_exit(msg, ids) ==
    /\ out' = Output(1, msg, NoValue, ids)
    /\ UNCHANGED <<frameVars, taskVars, epicVars, session, logVars>>

\* parser.error when argparse rejects an argument: exit status 2, before
\* any command function runs
parser_error(msg) ==
    /\ out' = Output(2, msg, NoValue, <<>>)
    /\ UNCHANGED <<frameVars, taskVars, epicVars, session, logVars>>

\* an exception no handler catches: traceback on stderr, exit status 1
uncaught_exception(name) ==
    /\ out' = Output(1, name, NoValue, <<>>)
    /\ UNCHANGED <<frameVars, taskVars, epicVars, session, logVars>>

\* a command that prints and returns without writing
print_return(msg, ids) ==
    /\ out' = Output(0, msg, NoValue, ids)
    /\ UNCHANGED <<frameVars, taskVars, epicVars, session, logVars>>

Take(s, n) == SubSeq(s, 1, IF Len(s) < n THEN Len(s) ELSE n)

(***************************************************************************)
(* Commands.  Each action is one invocation of the CLI, start to exit.     *)
(***************************************************************************)
\* specctl ready [--epic ID] [--json]
cmd_ready(epic_id, json) ==
    LET ready == get_ready_tasks(epic_id)
    IN  IF ~specDir
        THEN error_exit("no_spec", <<>>)
        ELSE /\ out' = [Output(0, "ready", epic_id, ready)
                            EXCEPT !.blocked = IF ~json /\ ready = <<>>
                                               THEN get_blocked_tasks(epic_id)
                                               ELSE <<>>]
             /\ UNCHANGED <<frameVars, taskVars, epicVars, session, logVars>>

\* Mutant: a session for another task makes start fail.
cmd_start_exclusive(task_id, git) ==
    LET current_status == IF status[task_id] = NoValue THEN "todo" ELSE status[task_id]
    IN  IF git = "missing"
        THEN uncaught_exception("FileNotFoundError")
        ELSE IF ~specDir
        THEN error_exit("no_spec", <<>>)
        ELSE IF task_id \notin files
        THEN error_exit("task_not_found", <<>>)
        ELSE IF current_status = "in_progress"
        THEN print_return("already_in_progress", <<>>)
        ELSE IF current_status = "done"
        THEN error_exit("task_already_done", <<>>)
        ELSE IF session_active /\ session.task # task_id
        THEN error_exit("session_exists", <<session.task>>)
        ELSE /\ status' = [status EXCEPT ![task_id] = "in_progress"]
             /\ Log("START", task_id)
             /\ session' = session_start(task_id, git)
             /\ out' = Output(0, "started", task_id, <<>>)
             /\ title' = [title EXCEPT ![task_id] = rewrite(@)]
             /\ UNCHANGED <<frameVars, idField, priority, epic, blockedBy, discoveredFrom,
                            doneFields, epicVars>>

\* Mutant: start refuses a task with an unmet blocker.
cmd_start_ready_only(task_id, git) ==
    LET current_status == IF status[task_id] = NoValue THEN "todo" ELSE status[task_id]
        warned == IF session_active /\ session.task # task_id THEN <<session.task>> ELSE <<>>
    IN  IF git = "missing"
        THEN uncaught_exception("FileNotFoundError")
        ELSE IF ~specDir
        THEN error_exit("no_spec", <<>>)
        ELSE IF task_id \notin files
        THEN error_exit("task_not_found", <<>>)
        ELSE IF current_status = "in_progress"
        THEN print_return("already_in_progress", <<>>)
        ELSE IF current_status = "done"
        THEN error_exit("task_already_done", <<>>)
        ELSE IF unmet_deps(task_id, done_ids(find_tasks(NoValue))) # <<>>
        THEN error_exit("task_blocked", <<>>)
        ELSE /\ status' = [status EXCEPT ![task_id] = "in_progress"]
             /\ Log("START", task_id)
             /\ session' = session_start(task_id, git)
             /\ out' = Output(0, "started", task_id, warned)
             /\ title' = [title EXCEPT ![task_id] = rewrite(@)]
             /\ UNCHANGED <<frameVars, idField, priority, epic, blockedBy, discoveredFrom,
                            doneFields, epicVars>>

\* specctl start <id>.  git is the outcome of the `git rev-parse` calls:
\* "ok", "fail" (CalledProcessError: nonzero exit) or "missing" (no git
\* executable: subprocess.run raises FileNotFoundError, which get_repo_root
\* does not catch, in the first call of ensure_spec_exists).
cmd_start(task_id, git) ==
    LET current_status == IF status[task_id] = NoValue THEN "todo" ELSE status[task_id]
        warned == IF session_active /\ session.task # task_id THEN <<session.task>> ELSE <<>>
    IN  IF git = "missing"
        THEN uncaught_exception("FileNotFoundError")
        ELSE IF ~specDir
        THEN error_exit("no_spec", <<>>)
        ELSE IF task_id \notin files
        THEN error_exit("task_not_found", <<>>)
        ELSE IF current_status = "in_progress"
        THEN print_return("already_in_progress", <<>>)
        ELSE IF current_status = "done"
        THEN error_exit("task_already_done", <<>>)
        ELSE /\ status' = [status EXCEPT ![task_id] = "in_progress"]
             /\ Log("START", task_id)
             /\ session' = session_start(task_id, git)
             /\ out' = Output(0, "started", task_id, warned)
             /\ title' = [title EXCEPT ![task_id] = rewrite(@)]
             /\ UNCHANGED <<frameVars, idField, priority, epic, blockedBy, discoveredFrom,
                            doneFields, epicVars>>

\* Mutant: done leaves SESSION.yaml in place.
cmd_done_keep_session(task_id, evidence) ==
    IF ~specDir
        THEN error_exit("no_spec", <<>>)
        ELSE IF task_id \notin files
        THEN error_exit("task_not_found", <<>>)
        ELSE /\ status' = [status EXCEPT ![task_id] = "done"]
             /\ doneFields' = [doneFields EXCEPT ![task_id] = @ \cup {"done-at"} \cup evidence]
             /\ Log("DONE", task_id)
             /\ title' = [title EXCEPT ![task_id] = rewrite(@)]
             /\ UNCHANGED <<frameVars, idField, priority, epic, blockedBy, discoveredFrom,
                            epicVars, session>>
             /\ out' = Output(0, "completed", task_id, Take(get_ready_tasks(epic[task_id])', 3))

\* specctl done <id> [--summary] [--files] [--commits] [--tests]
\* evidence is the set of done-* keys the options supply.
cmd_done(task_id, evidence) ==
    IF ~specDir
        THEN error_exit("no_spec", <<>>)
        ELSE IF task_id \notin files
        THEN error_exit("task_not_found", <<>>)
        ELSE /\ status' = [status EXCEPT ![task_id] = "done"]
             /\ doneFields' = [doneFields EXCEPT ![task_id] = @ \cup {"done-at"} \cup evidence]
             /\ Log("DONE", task_id)
             /\ session' = NoSession
             /\ title' = [title EXCEPT ![task_id] = rewrite(@)]
             /\ UNCHANGED <<frameVars, idField, priority, epic, blockedBy, discoveredFrom, epicVars>>
             /\ out' = Output(0, "completed", task_id, Take(get_ready_tasks(epic[task_id])', 3))

\* Mutant: only the status is written back; the done-* keys stay.
cmd_reset_keep_fields(task_id) ==
    LET current_status == IF status[task_id] = NoValue THEN "todo" ELSE status[task_id]
    IN  IF ~specDir
        THEN error_exit("no_spec", <<>>)
        ELSE IF task_id \notin files
        THEN error_exit("task_not_found", <<>>)
        ELSE IF current_status = "todo"
        THEN print_return("already_todo", <<>>)
        ELSE /\ status' = [status EXCEPT ![task_id] = "todo"]
             /\ Log("RESET", task_id)
             /\ out' = Output(0, "reset", task_id, <<>>)
             /\ title' = [title EXCEPT ![task_id] = rewrite(@)]
             /\ UNCHANGED <<frameVars, idField, priority, epic, blockedBy, discoveredFrom,
                            doneFields, epicVars, session>>

\* Mutant: a task that is already todo is rewritten and logged too.
cmd_reset_always(task_id) ==
    IF ~specDir
        THEN error_exit("no_spec", <<>>)
        ELSE IF task_id \notin files
        THEN error_exit("task_not_found", <<>>)
        ELSE /\ status' = [status EXCEPT ![task_id] = "todo"]
             /\ doneFields' = [doneFields EXCEPT ![task_id] = {}]
             /\ Log("RESET", task_id)
             /\ out' = Output(0, "reset", task_id, <<>>)
             /\ title' = [title EXCEPT ![task_id] = rewrite(@)]
             /\ UNCHANGED <<frameVars, idField, priority, epic, blockedBy, discoveredFrom,
                            epicVars, session>>

\* Mutant: reset ends the session as done does.
cmd_reset_end_session(task_id) ==
    LET current_status == IF status[task_id] = NoValue THEN "todo" ELSE status[task_id]
    IN  IF ~specDir
        THEN error_exit("no_spec", <<>>)
        ELSE IF task_id \notin files
        THEN error_exit("task_not_found", <<>>)
        ELSE IF current_status = "todo"
        THEN print_return("already_todo", <<>>)
        ELSE /\ status' = [status EXCEPT ![task_id] = "todo"]
             /\ doneFields' = [doneFields EXCEPT ![task_id] = {}]
             /\ Log("RESET", task_id)
             /\ out' = Output(0, "reset", task_id, <<>>)
             /\ title' = [title EXCEPT ![task_id] = rewrite(@)]
             /\ session' = NoSession
             /\ UNCHANGED <<frameVars, idField, priority, epic, blockedBy, discoveredFrom,
                            epicVars>>

\* specctl reset <id>
cmd_reset(task_id) ==
    LET current_status == IF status[task_id] = NoValue THEN "todo" ELSE status[task_id]
    IN  IF ~specDir
        THEN error_exit("no_spec", <<>>)
        ELSE IF task_id \notin files
        THEN error_exit("task_not_found", <<>>)
        ELSE IF current_status = "todo"
        THEN print_return("already_todo", <<>>)
        ELSE /\ status' = [status EXCEPT ![task_id] = "todo"]
             /\ doneFields' = [doneFields EXCEPT ![task_id] = {}]
             /\ Log("RESET", task_id)
             /\ out' = Output(0, "reset", task_id, <<>>)
             /\ title' = [title EXCEPT ![task_id] = rewrite(@)]
             /\ UNCHANGED <<frameVars, idField, priority, epic, blockedBy, discoveredFrom,
                            epicVars, session>>

\* specctl validate
cmd_validate ==
    IF ~specDir
    THEN error_exit("no_spec", <<>>)
    ELSE /\ out' = Output(IF validate_issues # <<>> THEN 1 ELSE 0,
                          IF validate_issues # <<>> THEN "issues" ELSE "no_issues",
                          NoValue, validate_issues)
         /\ UNCHANGED <<frameVars, taskVars, epicVars, session, logVars>>

\* Mutant: the cycle check runs for both dependency types.
cmd_dep_add_checked(task_id, dep_id, dep_type) ==
    LET cycle == would_create_cycle(task_id, dep_id)
    IN  IF ~specDir
        THEN error_exit("no_spec", <<>>)
        ELSE IF task_id \notin files
        THEN error_exit("task_not_found", <<>>)
        ELSE IF dep_id \notin files
        THEN error_exit("dep_not_found", <<>>)
        ELSE IF cycle # NoPath
        THEN error_exit("cycle", cycle)
        ELSE IF dep_type = "discovered-from"
        THEN IF InSeq(dep_id, discoveredFrom[task_id])
             THEN print_return("already_discovered", <<>>)
             ELSE /\ discoveredFrom' = [discoveredFrom EXCEPT ![task_id] = Append(@, dep_id)]
                  /\ out' = Output(0, "discovered", task_id, <<dep_id>>)
                  /\ title' = [title EXCEPT ![task_id] = rewrite(@)]
                  /\ UNCHANGED <<frameVars, idField, status, priority, epic, blockedBy,
                                 doneFields, epicVars, session, logVars>>
        ELSE IF InSeq(dep_id, blockedBy[task_id])
        THEN print_return("already_depends", <<>>)
        ELSE /\ blockedBy' = [blockedBy EXCEPT ![task_id] = Append(@, dep_id)]
             /\ out' = Output(0, "blocked", task_id, <<dep_id>>)
             /\ title' = [title EXCEPT ![task_id] = rewrite(@)]
             /\ UNCHANGED <<frameVars, idField, status, priority, epic, discoveredFrom,
                            doneFields, epicVars, session, logVars>>

\* Mutant: the blocked-by list is written before the cycle check.
cmd_dep_add_write_first(task_id, dep_id, dep_type) ==
    LET cycle == would_create_cycle(task_id, dep_id)
    IN  IF ~specDir
        THEN error_exit("no_spec", <<>>)
        ELSE IF task_id \notin files
        THEN error_exit("task_not_found", <<>>)
        ELSE IF dep_id \notin files
        THEN error_exit("dep_not_found", <<>>)
        ELSE IF dep_type = "discovered-from"
        THEN IF InSeq(dep_id, discoveredFrom[task_id])
             THEN print_return("already_discovered", <<>>)
             ELSE /\ discoveredFrom' = [discoveredFrom EXCEPT ![task_id] = Append(@, dep_id)]
                  /\ out' = Output(0, "discovered", task_id, <<dep_id>>)
                  /\ title' = [title EXCEPT ![task_id] = rewrite(@)]
                  /\ UNCHANGED <<frameVars, idField, status, priority, epic, blockedBy,
                                 doneFields, epicVars, session, logVars>>
        ELSE IF InSeq(dep_id, blockedBy[task_id])
        THEN print_return("already_depends", <<>>)
        ELSE /\ blockedBy' = [blockedBy EXCEPT ![task_id] = Append(@, dep_id)]
             /\ out' = IF cycle # NoPath
                       THEN Output(1, "cycle", NoValue, cycle)
                       ELSE Output(0, "blocked", task_id, <<dep_id>>)
             /\ title' = [title EXCEPT ![task_id] = rewrite(@)]
             /\ UNCHANGED <<frameVars, idField, status, priority, epic, discoveredFrom,
                            doneFields, epicVars, session, logVars>>

\* specctl dep add <task> <dep> [--type blocks|discovered-from]
cmd_dep_add(task_id, dep_id, dep_type) ==
    LET cycle == would_create_cycle(task_id, dep_id)
    IN  IF ~specDir
        THEN error_exit("no_spec", <<>>)
        ELSE IF task_id \notin files
        THEN error_exit("task_not_found", <<>>)
        ELSE IF dep_id \notin files
        THEN error_exit("dep_not_found", <<>>)
        ELSE IF dep_type = "discovered-from"
        THEN IF InSeq(dep_id, discoveredFrom[task_id])
             THEN print_return("already_discovered", <<>>)
             ELSE /\ discoveredFrom' = [discoveredFrom EXCEPT ![task_id] = Append(@, dep_id)]
                  /\ out' = Output(0, "discovered", task_id, <<dep_id>>)
                  /\ title' = [title EXCEPT ![task_id] = rewrite(@)]
                  /\ UNCHANGED <<frameVars, idField, status, priority, epic, blockedBy,
                                 doneFields, epicVars, session, logVars>>
        ELSE IF InSeq(dep_id, blockedBy[task_id])
        THEN print_return("already_depends", <<>>)
        ELSE IF cycle # NoPath
        THEN error_exit("cycle", cycle)
        ELSE /\ blockedBy' = [blockedBy EXCEPT ![task_id] = Append(@, dep_id)]
             /\ out' = Output(0, "blocked", task_id, <<dep_id>>)
             /\ title' = [title EXCEPT ![task_id] = rewrite(@)]
             /\ UNCHANGED <<frameVars, idField, status, priority, epic, discoveredFrom,
                            doneFields, epicVars, session, logVars>>

\* list.remove(x): drops the first occurrence
remove_first(s, x) ==
    LET i == CHOOSE k \in 1..Len(s) : s[k] = x /\ \A j \in 1..(k - 1) : s[j] # x
    IN  SubSeq(s, 1, i - 1) \o SubSeq(s, i + 1, Len(s))

\* specctl dep rm <task> <dep>
cmd_dep_rm(task_id, dep_id) ==
    IF ~specDir
        THEN error_exit("no_spec", <<>>)
        ELSE IF task_id \notin files
        THEN error_exit("task_not_found", <<>>)
        ELSE IF ~InSeq(dep_id, blockedBy[task_id])
        THEN print_return("not_a_dependency", <<>>)
        ELSE /\ blockedBy' = [blockedBy EXCEPT ![task_id] = remove_first(@, dep_id)]
             /\ out' = Output(0, "removed", task_id, <<dep_id>>)
             /\ title' = [title EXCEPT ![task_id] = rewrite(@)]
             /\ UNCHANGED <<frameVars, idField, status, priority, epic, discoveredFrom,
                            doneFields, epicVars, session, logVars>>

\* Mutant: --force does not override the check.
cmd_epic_close_strict(epic_id, force) ==
    LET current_status == IF epicStatus[epic_id] = NoValue THEN "open" ELSE epicStatus[epic_id]
        incomplete == SelectSeq(epicTasks[epic_id],
                                LAMBDA r : r \in files /\ status[r] # "done")
    IN  IF ~specDir
        THEN error_exit("no_spec", <<>>)
        ELSE IF epic_id \notin epicFiles
        THEN error_exit("epic_not_found", <<>>)
        ELSE IF current_status = "done"
        THEN print_return("epic_already_done", <<>>)
        ELSE IF incomplete # <<>>
        THEN error_exit("incomplete", incomplete)
        ELSE /\ epicStatus' = [epicStatus EXCEPT ![epic_id] = "done"]
             /\ Log("CLOSE", epic_id)
             /\ out' = Output(0, "closed", epic_id, <<>>)
             /\ UNCHANGED <<frameVars, taskVars, epicFiles, epicTasks, session>>

\* specctl epic close <id> [--force]
cmd_epic_close(epic_id, force) ==
    LET current_status == IF epicStatus[epic_id] = NoValue THEN "open" ELSE epicStatus[epic_id]
        incomplete == SelectSeq(epicTasks[epic_id],
                                LAMBDA r : r \in files /\ status[r] # "done")
    IN  IF ~specDir
        THEN error_exit("no_spec", <<>>)
        ELSE IF epic_id \notin epicFiles
        THEN error_exit("epic_not_found", <<>>)
        ELSE IF current_status = "done"
        THEN print_return("epic_already_done", <<>>)
        ELSE IF incomplete # <<>> /\ ~force
        THEN error_exit("incomplete", incomplete)
        ELSE /\ epicStatus' = [epicStatus EXCEPT ![epic_id] = "done"]
             /\ Log("CLOSE", epic_id)
             /\ out' = Output(0, "closed", epic_id, <<>>)
             /\ UNCHANGED <<frameVars, taskVars, epicFiles, epicTasks, session>>

\* specctl session clear
cmd_session_clear ==
    IF ~specDir
    THEN error_exit("no_spec", <<>>)
    ELSE IF session_active
    THEN /\ session' = NoSession
         /\ out' = Output(0, "cleared", session.task, <<>>)
         /\ UNCHANGED <<frameVars, taskVars, epicVars, logVars>>
    ELSE print_return("no_session", <<>>)

\* Mutant: the session is rebuilt from its task and the new step alone.
session_update_step_rebuilt(s, step) ==
    IF s # NoSession THEN [task |-> s.task, step |-> step, base |-> NoValue] ELSE s

\* session_update_step: a no-op without a session, else only step changes
session_update_step(s, step) == IF s # NoSession THEN [s EXCEPT !.step = step] ELSE s

\* specctl session step <value>; the parser takes only SESSION_STEPS values
cmd_session_step(step) ==
    IF ~InSeq(step, SESSION_STEPS)
    THEN parser_error("invalid_choice")
    ELSE IF ~specDir
    THEN error_exit("no_spec", <<>>)
    ELSE IF ~session_active
    THEN error_exit("no_session", <<>>)
    ELSE IF ~InSeq(step, SESSION_STEPS)
    THEN error_exit("invalid_step", <<>>)
    ELSE /\ session' = session_update_step(session, step)
         /\ out' = Output(0, "step", step, <<>>)
         /\ UNCHANGED <<frameVars, taskVars, epicVars, logVars>>

(***************************************************************************)
(* The blocked-by graph over ids: x -> y when the task with id x lists y.  *)
(***************************************************************************)
Edge(x, y) == InSeq(y, get_deps(x))

RECURSIVE ReachIn(_, _)
ReachIn(front, seen) ==
    LET next == {y \in Ids : \E x \in front : Edge(x, y)} \ seen
    IN  IF next = {} THEN seen ELSE ReachIn(next, seen \cup next)

\* ids reachable from x by one or more blocked-by edges
ReachableFrom(x) == ReachIn({x}, {})
Acyclic == \A x \in Ids : x \notin ReachableFrom(x)

RECURSIVE SumLen(_, _)
SumLen(f, S) ==
    IF S = {} THEN 0
    ELSE LET x == CHOOSE y \in S : TRUE IN Len(f[x]) + SumLen(f, S \ {x})

TotalEdges == SumLen(blockedBy, Tasks)
TotalDiscovered == SumLen(discoveredFrom, Tasks)

(***************************************************************************)
(* Inputs of the commands and bounds of the specifications.                *)
(***************************************************************************)
MaxLog == 1          \* Spec: appends to PROGRESS.md per behaviour
MaxEdges == 3        \* Spec: blocked-by entries over all tasks
MaxDiscovered == 1   \* Spec: discovered-from entries over all tasks
FlowMaxLog == 1      \* SpecFlow: appends to PROGRESS.md per behaviour
QueryMaxDeps == 2    \* SpecQuery: length of a hand-authored blocked-by list
EpicMaxLog == 2      \* SpecEpic: appends to PROGRESS.md per behaviour
LogMaxAppends == 12  \* SpecLog: entries ever written to PROGRESS.md, INIT included
SessMaxLog == 3      \* SpecSession: appends to PROGRESS.md per behaviour
LifeMaxLog == 2      \* SpecLife: appends to PROGRESS.md per behaviour
LifeMaxDeps == 1     \* SpecLife: blocked-by entries, and discovered-from entries
ValidateMaxDeps == 3 \* SpecValidate: blocked-by entries over all tasks
RewriteMaxLog == 1   \* SpecRewrite: appends to PROGRESS.md per behaviour
RewriteMaxDeps == 1  \* SpecRewrite: blocked-by entries, and discovered-from entries
IdMaxDeps == 2       \* SpecId: blocked-by entries over all tasks
CycleMaxDeps == 3    \* SpecCycle: blocked-by entries over all task files
DfsFuel == 24        \* SpecCycle: calls of dfs one search may make
WorkMaxDeps == 2     \* SpecWork: blocked-by entries over all task files
CrashMaxLog == 2     \* SpecCrash: entries in PROGRESS.md when a command may still begin
MaxText == 2         \* SpecFrontmatter: characters of a string value or body
MaxItems == 2        \* SpecFrontmatter: items of a list value

GitOutcomes == {"ok", "fail"}
GitQueryOutcomes == {"ok", "fail", "missing"}
EvidenceChoices == {{}, {"done-summary", "done-files", "done-commits", "done-tests"}}
EpicFilters == {NoValue, "E1"}
DepTypes == {"blocks", "discovered-from"}
DiscoveredInputs == {<<"T1", "T2">>, <<"T1", "T1">>}
StepInputs == {"implementing", "shipping"}

\* ready, validate: commands that only read
QueryCmds ==
    \/ \E e \in EpicFilters : cmd_ready(e, FALSE)
    \/ cmd_validate

\* start, done, reset, epic close: commands that append to PROGRESS.md
FlowCmds(max_log, gits, evidences) ==
    \/ \E t \in Ids, g \in gits : cmd_start(t, g) /\ Len(history') <= max_log
    \/ \E t \in Ids, ev \in evidences : cmd_done(t, ev) /\ Len(history') <= max_log
    \/ \E t \in Ids : cmd_reset(t) /\ Len(history') <= max_log
    \/ \E e \in Epics \cup {MissingEpic}, force \in BOOLEAN :
          cmd_epic_close(e, force) /\ Len(history') <= max_log

\* dep add, dep rm
DepCmds(max_edges, max_disc) ==
    \/ \E t \in Ids, d \in Ids : cmd_dep_add(t, d, "blocks") /\ TotalEdges' <= max_edges
    \/ \E td \in DiscoveredInputs :
          cmd_dep_add(td[1], td[2], "discovered-from") /\ TotalDiscovered' <= max_disc
    \/ \E t \in Ids, d \in Ids : cmd_dep_rm(t, d)

\* session clear, session step
SessionCmds ==
    \/ cmd_session_clear
    \/ \E step \in StepInputs : cmd_session_step(step)

Procs == {"p1", "p2"}
NoSnapshot == [status |-> NoValue, blockedBy |-> <<>>, discoveredFrom |-> <<>>,
               doneFields |-> {}, title |-> AbsentValue]
\* pc: where the invocation stands; local: the blocked_by list dep add holds
\* in memory; snapshot: what update_frontmatter read; wrote: the rank of the
\* invocation's write among all writes so far, 0 before it (history field);
\* seen: the rank of the last write made before the invocation loaded its
\* files (history field)
IdleCall == [pc |-> "idle", cmd |-> NoValue, target |-> NoValue, dep |-> NoValue,
             local |-> <<>>, snapshot |-> NoSnapshot, wrote |-> 0, seen |-> 0]

\* one requirement file, nothing in memory, no invocation under way
InitFrame ==
    /\ reqs = {"R1"}
    /\ document = NoDocument
    /\ loaded = NoDocument
    /\ calls = [p \in Procs |-> IdleCall]

(***************************************************************************)
(* Spec: one process, one command at a time, starting from hand-authored   *)
(* task files; every command, with the dependency graph edited freely.     *)
(***************************************************************************)
Init ==
    /\ specDir = TRUE
    /\ InitFrame
    /\ title = [t \in Tasks |-> PlainTitle]
    /\ files = Tasks
    /\ idField = [t \in Tasks |-> IF t = "T2" THEN NoValue ELSE t]
    /\ status = [t \in Tasks |-> IF t = "T3" THEN NoValue ELSE "todo"]
    /\ priority = [t \in Tasks |-> CASE t = "T1" -> "low" [] t = "T2" -> NoValue [] OTHER -> "critical"]
    /\ epic = [t \in Tasks |-> CASE t = "T1" -> "E1" [] t = "T2" -> "E2" [] OTHER -> NoValue]
    /\ blockedBy = [t \in Tasks |-> <<>>]
    /\ discoveredFrom = [t \in Tasks |-> <<>>]
    /\ doneFields = [t \in Tasks |-> {}]
    /\ epicFiles = {"E1"}
    /\ epicStatus = [e \in Epics |-> IF e = "E1" THEN "open" ELSE NoValue]
    /\ epicTasks = [e \in Epics |-> IF e = "E1" THEN <<"T1", "T2">> ELSE <<>>]
    /\ session = NoSession
    /\ progress = <<>>
    /\ history = <<>>
    /\ out = NoOutput

Next ==
    \/ QueryCmds
    \/ FlowCmds(MaxLog, {"ok"}, {{}})
    \/ DepCmds(MaxEdges, MaxDiscovered)
    \/ SessionCmds

Spec == Init /\ [][Next]_vars

(***************************************************************************)
(* Properties of Spec.                                                     *)
(***************************************************************************)
\* C1: after every sequence of commands the blocked-by edges of all tasks
\* form a directed acyclic graph.
C1_AcyclicAlways == Acyclic

\* C1 witness: a dependency was added on top of others after a command that
\* logs, and the graph holds a chain.
C1_Witness ==
    /\ out.msg = "blocked"
    /\ history # <<>>
    /\ \E x \in Tasks, y \in Tasks, z \in Tasks : x # z /\ Edge(x, y) /\ Edge(y, z)

\* C2: when blocked-by edges lead from task D to task T, `dep add T D` exits
\* nonzero, reports a path holding T and D, and leaves every file as it was.
C2_CycleRejected ==
    [][\A t \in Tasks, d \in Tasks :
          (cmd_dep_add(t, d, "blocks") /\ t \in ReachableFrom(d))
              => /\ out'.exit = 1
                 /\ out'.msg = "cycle"
                 /\ InSeq(t, out'.ids) /\ InSeq(d, out'.ids)
                 /\ UNCHANGED diskVars]_vars

\* C2 witness: a rejection whose path runs over an intermediate task.
C2_Witness == out.exit = 1 /\ out.msg = "cycle" /\ Len(out.ids) = 3

\* C3: `dep add T T` is rejected as a cycle: would_create_cycle(T, T) is the
\* one-element path [T], the exit is nonzero, T's blocked-by is unchanged.
C3_SelfLoopRejected ==
    [][\A t \in Tasks :
          cmd_dep_add(t, t, "blocks")
              => /\ would_create_cycle(t, t) = <<t>>
                 /\ out'.exit = 1
                 /\ out'.ids = <<t>>
                 /\ blockedBy' = blockedBy]_vars

\* C3 witness: a rejection with a one-element path.
C3_Witness == out.exit = 1 /\ out.msg = "cycle" /\ Len(out.ids) = 1

C11_WitnessSelf ==
    out.msg = "discovered" /\ out.target = "T1" /\ out.ids = <<"T1">>

\* the command failed: a nonzero exit status, and the files, the session
\* and the log are what they were
Failed == out'.exit # 0 /\ UNCHANGED <<diskVars, history>>

\* C21: a command that ends in a user error (task, epic or dependency not
\* found, start of a done task, an invalid session step or a step without a
\* session, a dep add that would close a cycle, an epic close with an
\* incomplete task and no --force) exits nonzero and leaves every task and
\* epic file, the session and the log as they were; so does every step that
\* exits nonzero.
C21_ErrorsLeaveStateAlone ==
    [][/\ out'.exit # 0 => UNCHANGED <<diskVars, history>>
       /\ \A t \in Ids :
             /\ ((t \notin files \/ status[t] = "done") /\ cmd_start(t, "ok")) => Failed
             /\ (t \notin files /\ cmd_done(t, {})) => Failed
             /\ (t \notin files /\ cmd_reset(t)) => Failed
             /\ \A d \in Ids :
                   /\ (t \notin files /\ cmd_dep_rm(t, d)) => Failed
                   /\ \A ty \in DepTypes :
                         ((t \notin files \/ d \notin files) /\ cmd_dep_add(t, d, ty)) => Failed
                   /\ (/\ t \in files /\ d \in files
                       /\ ~InSeq(d, blockedBy[t])
                       /\ cmd_dep_add(t, d, "blocks")
                       /\ (t = d \/ t \in ReachableFrom(d))) => Failed
       /\ \A e \in Epics \cup {MissingEpic} :
             /\ (e \notin epicFiles /\ \E force \in BOOLEAN : cmd_epic_close(e, force)) => Failed
             /\ (/\ e \in epicFiles /\ epicStatus[e] # "done"
                 /\ \E i \in 1..Len(epicTasks[e]) :
                       epicTasks[e][i] \in files /\ status[epicTasks[e][i]] # "done"
                 /\ cmd_epic_close(e, FALSE)) => Failed
       /\ \A step \in StepInputs :
             ((~InSeq(step, SESSION_STEPS) \/ session = NoSession) /\ cmd_session_step(step))
                 => Failed]_vars

\* C21 witness: start was refused for a task a command had completed.
C21_Witness ==
    /\ out.exit = 1 /\ out.msg = "task_already_done"
    /\ history = << <<"DONE", "T1">> >> /\ status["T1"] = "done"

\* C21 second case: the parser refused a step value while a session existed.
C21_WitnessStep ==
    /\ out.exit = 2 /\ out.msg = "invalid_choice"
    /\ session = [task |-> "T1", step |-> "implementing", base |-> "c1"]
    /\ TotalEdges = 2

(***************************************************************************)
(* SpecFlow: the workflow commands over hand-authored projects.  The       *)
(* dependency graph is one of FlowGraphs and is not edited; every task     *)
(* starts in any status.                                                   *)
(***************************************************************************)
ChainGraph == [t \in Tasks |-> CASE t = "T2" -> <<"T1">> [] t = "T3" -> <<"T2">> [] OTHER -> <<>>]

FlowGraphs ==
    { [t \in Tasks |-> <<>>],
      ChainGraph,
      [t \in Tasks |-> IF t = "T3" THEN <<"T1", "T2">> ELSE <<>>],
      [t \in Tasks |-> IF t = "T1" THEN <<>> ELSE <<"T1">>],
      [t \in Tasks |-> IF t = "T2" THEN <<"T1", Missing>> ELSE <<>>],
      [t \in Tasks |-> CASE t = "T1" -> <<Missing>> [] t = "T3" -> <<"T1">> [] OTHER -> <<>>] }

\* every status for each task; only T3 may lack the field
FlowStatuses ==
    {f \in [Tasks -> Range(TASK_STATUS) \cup {NoValue}] : f["T1"] # NoValue /\ f["T2"] # NoValue}

InitFlow ==
    /\ specDir = TRUE
    /\ InitFrame
    /\ title = [t \in Tasks |-> PlainTitle]
    /\ files = Tasks
    /\ idField = [t \in Tasks |-> IF t = "T2" THEN NoValue ELSE t]
    /\ status \in FlowStatuses
    /\ priority = [t \in Tasks |-> CASE t = "T1" -> "low" [] t = "T2" -> NoValue [] OTHER -> "critical"]
    /\ epic = [t \in Tasks |-> CASE t = "T1" -> "E1" [] t = "T2" -> "E2" [] OTHER -> NoValue]
    /\ blockedBy \in FlowGraphs
    /\ discoveredFrom = [t \in Tasks |-> <<>>]
    /\ doneFields = [t \in Tasks |-> IF status[t] # "done" THEN {}
                                      ELSE IF t = "T1" THEN DoneKeys ELSE {"done-at"}]
    /\ epicFiles = {"E1"}
    /\ epicStatus = [e \in Epics |-> IF e = "E1" THEN "open" ELSE NoValue]
    /\ epicTasks = [e \in Epics |-> IF e = "E1" THEN <<"T1", "T2">> ELSE <<>>]
    /\ session = NoSession
    /\ progress = <<>>
    /\ history = <<>>
    /\ out = NoOutput

NextFlow ==
    \/ QueryCmds
    \/ FlowCmds(FlowMaxLog, GitOutcomes, EvidenceChoices)
    \/ SessionCmds

SpecFlow == InitFlow /\ [][NextFlow]_vars

(***************************************************************************)
(* Properties of SpecFlow.                                                 *)
(***************************************************************************)
AnyFilter == {NoValue} \cup Epics

\* C6: a `done X` step never takes another task out of the ready set, with
\* or without an epic filter: every task other than X that was ready before
\* the step is ready after it.
C6_DoneKeepsOthersReady ==
    [][\A x \in Tasks :
          (\E ev \in EvidenceChoices : cmd_done(x, ev))
              => \A e \in AnyFilter : \A t \in Tasks \ {x} :
                    InSeq(t, get_ready_tasks(e)) => InSeq(t, get_ready_tasks(e)')]_vars

\* C6 witness: done T1 was run where another task was ready and stays ready,
\* and a task T1 blocked has become ready.
C6_Witness ==
    /\ out.msg = "completed" /\ out.target = "T1"
    /\ blockedBy["T3"] = <<"T1">> /\ blockedBy["T2"] = <<>>
    /\ status["T2"] = "todo" /\ status["T3"] = "todo"
    /\ InSeq("T2", get_ready_tasks(NoValue)) /\ InSeq("T3", get_ready_tasks(NoValue))

C10_DanglingNeverReady ==
    \A t \in files : \A i \in 1..Len(blockedBy[t]) :
        (status[t] = "todo" /\ ~task_map_has(blockedBy[t][i]))
            => LET finding == <<"dangling_blocked_by", load_task_id(t), blockedBy[t][i]>>
               IN  /\ \A e \in AnyFilter : ~InSeq(t, get_ready_tasks(e))
                   /\ InSeq(finding, validate_issues)
                   /\ out.msg \in {"issues", "no_issues"}
                          => out.exit = 1 /\ InSeq(finding, out.ids)

\* C10 witness: T2 waits for T1 and for an id with no task; T1 has been
\* completed by a command, validate has run, T2 is still todo.
C10_Witness ==
    /\ blockedBy["T2"] = <<"T1", Missing>>
    /\ status["T2"] = "todo" /\ status["T1"] = "done"
    /\ history = << <<"DONE", "T1">> >>
    /\ out.msg = "issues"

(***************************************************************************)
(* SpecQuery: `ready` and `validate` over hand-authored projects: any      *)
(* status per task with short blocked-by lists over every id (cycles and   *)
(* unknown ids included), any epic per task, any priority per task.        *)
(***************************************************************************)
QueryLists == UNION {[1..n -> Ids] : n \in 0..QueryMaxDeps}
QueryGraphs == {g \in [Tasks -> QueryLists] : SumLen(g, Tasks) <= QueryMaxDeps}

ProfilePriority == [t \in Tasks |-> CASE t = "T1" -> "low" [] t = "T2" -> NoValue [] OTHER -> "critical"]
ProfileEpic == [t \in Tasks |-> CASE t = "T1" -> "E1" [] t = "T2" -> "E2" [] OTHER -> NoValue]

InitQuery ==
    /\ specDir = TRUE
    /\ InitFrame
    /\ title = [t \in Tasks |-> PlainTitle]
    /\ files = Tasks
    /\ idField = [t \in Tasks |-> IF t = "T2" THEN NoValue ELSE t]
    /\ \/ /\ status \in [Tasks -> Range(TASK_STATUS) \cup {NoValue}]
          /\ blockedBy \in QueryGraphs
          /\ epic = ProfileEpic
          /\ priority = ProfilePriority
       \/ /\ status \in [Tasks -> {"todo", "done"}]
          /\ blockedBy \in FlowGraphs
          /\ epic \in [Tasks -> Epics \cup {NoValue}]
          /\ priority = ProfilePriority
       \/ /\ status \in [Tasks -> {"todo", "done"}]
          /\ blockedBy \in {[t \in Tasks |-> <<>>], ChainGraph}
          /\ epic = ProfileEpic
          /\ priority \in [Tasks -> Priorities]
    /\ discoveredFrom = [t \in Tasks |-> <<>>]
    /\ doneFields = [t \in Tasks |-> IF status[t] = "done" THEN {"done-at"} ELSE {}]
    /\ epicFiles = {"E1"}
    /\ epicStatus = [e \in Epics |-> IF e = "E1" THEN "open" ELSE NoValue]
    /\ epicTasks = [e \in Epics |-> IF e = "E1" THEN <<"T1", "T2">> ELSE <<>>]
    /\ session = NoSession
    /\ progress = <<>>
    /\ history = <<>>
    /\ out = NoOutput

NextQuery ==
    \/ \E e \in AnyFilter, json \in BOOLEAN : cmd_ready(e, json)
    \/ cmd_validate

SpecQuery == InitQuery /\ [][NextQuery]_vars

(***************************************************************************)
(* Properties of SpecQuery.                                                *)
(***************************************************************************)
\* the id names a task whose status is done
IsDoneTask(d) == \E u \in files : load_task_id(u) = d /\ status[u] = "done"
\* the blocked-by entries of t whose target is not a done task
NotDoneTargets(t) == SelectSeq(blockedBy[t], LAMBDA d : ~IsDoneTask(d))
\* the tasks an epic filter selects
InScope(t, e) == t \in files /\ (e = NoValue \/ epic[t] = e)
\* position of a task in the enumeration of tasks/
EnumPos(t) == CHOOSE i \in 1..Len(TaskOrder) : TaskOrder[i] = t
\* the rank of a priority value: critical 0, normal 1, low 2, anything else 1
RankOf(p) == IF p = "critical" THEN 0 ELSE IF p = "low" THEN 2 ELSE 1

\* C4: with no epic filter, ready lists each task once and lists exactly the
\* tasks whose status is todo and whose every blocked-by target is a done
\* task; `specctl ready` prints that list.
C4_ReadyUnfiltered ==
    LET ready == get_ready_tasks(NoValue)
    IN  /\ \A t \in Tasks :
              InSeq(t, ready) <=> (t \in files /\ status[t] = "todo" /\ NotDoneTargets(t) = <<>>)
        /\ \A i \in 1..Len(ready), j \in 1..Len(ready) : ready[i] = ready[j] => i = j
        /\ (out.msg = "ready" /\ out.target = NoValue) => out.ids = ready

\* C4 witness: an unfiltered `ready` listed a task whose blockers are done and
\* left out a todo task with a blocker that is not done.
C4_Witness ==
    /\ out.msg = "ready" /\ out.target = NoValue
    /\ \E t \in Tasks : InSeq(t, out.ids) /\ blockedBy[t] # <<>>
    /\ \E t \in Tasks : status[t] = "todo" /\ ~InSeq(t, out.ids)

\* C5: for every epic E, ready filtered by E is the unfiltered ready list
\* restricted to the tasks whose epic field is E.
C5_FilterIsRestriction ==
    \A e \in Epics :
        get_ready_tasks(e) = SelectSeq(get_ready_tasks(NoValue), LAMBDA t : epic[t] = e)

\* C8: under every filter the ready list is ordered by rank: no task comes
\* before a task of strictly lower rank number, and tasks of equal rank keep
\* the order of the task enumeration.
C8_ReadyOrdered ==
    \A e \in AnyFilter :
        LET ready == get_ready_tasks(e)
        IN  \A i \in 1..Len(ready), j \in 1..Len(ready) :
                i < j => \/ RankOf(priority[ready[i]]) < RankOf(priority[ready[j]])
                         \/ /\ RankOf(priority[ready[i]]) = RankOf(priority[ready[j]])
                            /\ EnumPos(ready[i]) < EnumPos(ready[j])

\* C8 witness: `ready` printed three tasks, a critical one enumerated last
\* printed first, then an unrecognised and an absent priority in enumeration
\* order.
C8_Witness ==
    /\ out.msg = "ready" /\ out.ids = <<"T3", "T1", "T2">>
    /\ priority["T3"] = "critical" /\ priority["T1"] = "high" /\ priority["T2"] = NoValue

\* C9: under every filter, blocked lists exactly the selected todo tasks with
\* a blocked-by target that is not a done task, each with exactly those
\* targets; every selected todo task is in exactly one of ready and blocked,
\* and no other task is in either.
C9_BlockedExact ==
    \A e \in AnyFilter :
        LET ready == get_ready_tasks(e)
            blocked == get_blocked_tasks(e)
            InBlocked(t) == \E i \in 1..Len(blocked) : blocked[i][1] = t
        IN  /\ \A t \in Tasks :
                  InBlocked(t) <=> (InScope(t, e) /\ status[t] = "todo" /\ NotDoneTargets(t) # <<>>)
            /\ \A i \in 1..Len(blocked) : blocked[i][2] = NotDoneTargets(blocked[i][1])
            /\ \A t \in Tasks :
                  IF InScope(t, e) /\ status[t] = "todo"
                  THEN InSeq(t, ready) # InBlocked(t)
                  ELSE ~InSeq(t, ready) /\ ~InBlocked(t)

(***************************************************************************)
(* SpecEpic: closing epics.  E1 lists T1 and T2; E2 has no status field    *)
(* and lists T3 and an id with no task file.  Every task starts in any     *)
(* status; no task depends on another.                                     *)
(***************************************************************************)
InitEpic ==
    /\ specDir = TRUE
    /\ InitFrame
    /\ title = [t \in Tasks |-> PlainTitle]
    /\ files = Tasks
    /\ idField = [t \in Tasks |-> IF t = "T2" THEN NoValue ELSE t]
    /\ status \in FlowStatuses
    /\ priority = ProfilePriority
    /\ epic = [t \in Tasks |-> IF t = "T3" THEN "E2" ELSE "E1"]
    /\ blockedBy = [t \in Tasks |-> <<>>]
    /\ discoveredFrom = [t \in Tasks |-> <<>>]
    /\ doneFields = [t \in Tasks |-> IF status[t] = "done" THEN {"done-at"} ELSE {}]
    /\ epicFiles = Epics
    /\ epicStatus = [e \in Epics |-> IF e = "E1" THEN "open" ELSE NoValue]
    /\ epicTasks = [e \in Epics |-> IF e = "E1" THEN <<"T1", "T2">> ELSE <<"T3", Missing>>]
    /\ session = NoSession
    /\ progress = <<>>
    /\ history = <<>>
    /\ out = NoOutput

NextEpic == FlowCmds(EpicMaxLog, {"ok"}, {{}})

SpecEpic == InitEpic /\ [][NextEpic]_vars

\* the listed ids of epic e that do not name a task with status done
NotDoneRefs(e) == SelectSeq(epicTasks[e], LAMBDA r : ~(r \in files /\ status[r] = "done"))

\* C12: an `epic close` step without --force takes an epic to done only when
\* every id listed in its tasks field names a task whose status is done.
C12_CloseNeedsAllDone ==
    [][\A e \in Epics :
          (cmd_epic_close(e, FALSE) /\ epicStatus[e] # "done" /\ epicStatus'[e] = "done")
              => NotDoneRefs(e) = <<>>]_vars

\* C13: for an open epic listing a task that is not done, `epic close` exits
\* nonzero and changes no file, session or log; `epic close --force` exits
\* 0, sets the epic's status to done and changes no task.
C13_CloseGuard ==
    [][\A e \in Epics, force \in BOOLEAN :
          (/\ e \in epicFiles /\ epicStatus[e] # "done"
           /\ \E i \in 1..Len(epicTasks[e]) :
                 epicTasks[e][i] \in files /\ status[epicTasks[e][i]] # "done"
           /\ cmd_epic_close(e, force))
              => IF force
                 THEN /\ out'.exit = 0
                      /\ epicStatus' = [epicStatus EXCEPT ![e] = "done"]
                      /\ UNCHANGED <<fsVars, taskVars, epicFiles, epicTasks, session>>
                 ELSE /\ out'.exit = 1
                      /\ UNCHANGED <<diskVars, history>>]_vars

\* C13 witness: E1 was closed with --force while T1 is still in progress.
C13_Witness ==
    /\ out.msg = "closed" /\ out.target = "E1"
    /\ epicStatus["E1"] = "done" /\ status["T1"] = "in_progress"
    /\ history[Len(history)] = <<"CLOSE", "E1">>

\* C13 second case: the close of E1 was refused because of T2 alone.
C13_WitnessRefused ==
    out.exit = 1 /\ out.msg = "incomplete" /\ out.ids = <<"T2">> /\ epicStatus["E1"] = "open"

(***************************************************************************)
(* Lifecycle properties of SpecFlow.                                       *)
(***************************************************************************)
\* the status a command reads when the field is absent
EffectiveStatus(v) == IF v = NoValue THEN "todo" ELSE v

LifecycleSteps ==
    { <<"todo", "in_progress">>, <<"in_progress", "done">>,
      <<"in_progress", "todo">>, <<"done", "todo">> }

\* C14: in every step a task's status stays or moves along todo ->
\* in_progress, in_progress -> done, in_progress -> todo or done -> todo, and
\* a task that is done and stays done keeps its done-* fields.
C14_LifecycleOnly ==
    [][\A t \in Tasks :
          /\ EffectiveStatus(status'[t]) # EffectiveStatus(status[t])
                => <<EffectiveStatus(status[t]), EffectiveStatus(status'[t])>> \in LifecycleSteps
          /\ (status[t] = "done" /\ status'[t] = "done") => doneFields'[t] = doneFields[t]]_vars

\* C15: a `reset T` step on a task that is in_progress or done leaves T with
\* status todo and no done-* key; T's id, priority, epic, blocked-by and
\* discovered-from and every other task are unchanged.
C15_ResetStripsDone ==
    [][\A t \in Tasks :
          (status[t] \in {"in_progress", "done"} /\ cmd_reset(t))
              => /\ status' = [status EXCEPT ![t] = "todo"]
                 /\ doneFields' = [doneFields EXCEPT ![t] = {}]
                 /\ UNCHANGED <<idField, priority, epic, blockedBy, discoveredFrom>>
                 /\ out'.exit = 0]_vars

\* C15 witness: T1, authored as done with all five done-* keys, was reset.
C15_Witness ==
    /\ out.msg = "reset" /\ out.target = "T1"
    /\ history = << <<"RESET", "T1">> >>
    /\ status["T1"] = "todo" /\ doneFields["T1"] = {}
    /\ status["T2"] = "in_progress" /\ doneFields["T3"] = {"done-at"}

\* C16: a `reset T` step on a task that is todo exits 0 and changes no file,
\* no session and no log; every reset leaves T todo, so a second reset is
\* such a step.
C16_ResetTodoNoOp ==
    [][\A t \in Tasks :
          cmd_reset(t)
              => /\ EffectiveStatus(status'[t]) = "todo"
                 /\ EffectiveStatus(status[t]) = "todo"
                        => (out'.exit = 0 /\ UNCHANGED <<diskVars, history>>)]_vars

\* C16 witness: after one logged reset a second reset found the task todo.
C16_Witness ==
    /\ out.exit = 0 /\ out.msg = "already_todo"
    /\ history = << <<"RESET", "T1">> >>
    /\ status["T2"] # "todo" /\ status["T3"] \notin {"todo", NoValue}

(***************************************************************************)
(* SpecLog: long runs of the logging commands on one task and one epic,    *)
(* starting right after `specctl init` wrote the INIT entry and the task   *)
(* files were authored.                                                    *)
(***************************************************************************)
\* cmd_init: PROGRESS.md starts as the single line "<time> INIT .spec/"
InitEntry == <<"INIT", ".spec/">>

InitLog ==
    /\ specDir = TRUE
    /\ InitFrame
    /\ title = [t \in Tasks |-> PlainTitle]
    /\ files = Tasks
    /\ idField = [t \in Tasks |-> IF t = "T2" THEN NoValue ELSE t]
    /\ status = [t \in Tasks |-> "todo"]
    /\ priority = ProfilePriority
    /\ epic = ProfileEpic
    /\ blockedBy = [t \in Tasks |-> <<>>]
    /\ discoveredFrom = [t \in Tasks |-> <<>>]
    /\ doneFields = [t \in Tasks |-> {}]
    /\ epicFiles = {"E1"}
    /\ epicStatus = [e \in Epics |-> IF e = "E1" THEN "open" ELSE NoValue]
    /\ epicTasks = [e \in Epics |-> IF e = "E1" THEN <<"T1", "T2">> ELSE <<>>]
    /\ session = NoSession
    /\ progress = <<InitEntry>>
    /\ history = <<InitEntry>>
    /\ out = NoOutput

NextLog ==
    \/ cmd_start("T1", "ok") /\ Len(history') <= LogMaxAppends
    \/ cmd_done("T1", {}) /\ Len(history') <= LogMaxAppends
    \/ cmd_reset("T1") /\ Len(history') <= LogMaxAppends
    \/ cmd_epic_close("E1", TRUE) /\ Len(history') <= LogMaxAppends

SpecLog == InitLog /\ [][NextLog]_vars

\* C17: PROGRESS.md holds at most 10 entries, and they are the last
\* min(n, 10) of the n entries ever written, oldest first.
C17_LogKeepsLastTen ==
    LET n == Len(history)
        kept == IF n < 10 THEN n ELSE 10
    IN  /\ Len(progress) <= 10
        /\ progress = SubSeq(history, n - kept + 1, n)

\* C17 witness: the eleventh entry was written; ten are left, the INIT entry
\* is gone and the second entry ever written is now the first.
C17_Witness ==
    /\ Len(history) = 11 /\ Len(progress) = 10
    /\ history[1] = InitEntry /\ ~InSeq(InitEntry, progress)
    /\ progress[1] = history[2] /\ progress[10] = history[11]

(***************************************************************************)
(* SpecSession: the session file under start, done, reset, epic close,     *)
(* session clear and session step with each of the five steps, from the    *)
(* project of Init.                                                        *)
(***************************************************************************)
NextSession ==
    \/ FlowCmds(SessMaxLog, GitQueryOutcomes, {{}})
    \/ cmd_session_clear
    \/ \E step \in Range(SESSION_STEPS) : cmd_session_step(step)

SpecSession == Init /\ [][NextSession]_vars

\* C18: a `start T` step on a todo task exits 0 whether no session, a
\* session for T or a session for another task exists; afterwards T is
\* in_progress, no other task changed, and the session names T with step
\* planning.  A session for another task is only named in a warning.
C18_StartReplacesSession ==
    [][\A t \in Tasks, g \in GitOutcomes :
          (EffectiveStatus(status[t]) = "todo" /\ cmd_start(t, g))
              => /\ out'.exit = 0
                 /\ status' = [status EXCEPT ![t] = "in_progress"]
                 /\ session'.task = t /\ session'.step = "planning"
                 /\ out'.ids = (IF session # NoSession /\ session.task # t
                                THEN <<session.task>> ELSE <<>>)]_vars

\* C18 witness: T2 was started while the session named T1; the session now
\* names T2 and T1 is still in progress.
C18_Witness ==
    /\ out.msg = "started" /\ out.target = "T2" /\ out.ids = <<"T1">>
    /\ session.task = "T2" /\ session.step = "planning"
    /\ status["T1"] = "in_progress" /\ status["T2"] = "in_progress"

\* C18 second case: T1 was started, reset and started again over its own
\* session, without a warning.
C18_WitnessSameTask ==
    /\ out.msg = "started" /\ out.target = "T1" /\ out.ids = <<>>
    /\ history = << <<"START", "T1">>, <<"RESET", "T1">>, <<"START", "T1">> >>

\* C19: a `session step` step without a session leaves no session and
\* changes no file; with a session it exits 0 for each of the five steps
\* and changes the step field alone: task and base_commit of the session,
\* every task and epic file and the log are unchanged.
C19_StepOnlyStep ==
    [][\A step \in Range(SESSION_STEPS) :
          cmd_session_step(step)
              => IF session = NoSession
                 THEN session' = NoSession /\ UNCHANGED <<diskVars, history>>
                 ELSE /\ out'.exit = 0
                      /\ session' = [session EXCEPT !.step = step]
                      /\ UNCHANGED <<fsVars, taskVars, epicVars, logVars>>]_vars

\* C19 witness: the step of a session with a base commit was set to
\* reviewing; task and base commit are those start wrote.
C19_Witness ==
    /\ out.msg = "step" /\ out.target = "reviewing"
    /\ session = [task |-> "T1", step |-> "reviewing", base |-> "c1"]

\* C19 second case: a step command ran without a session.
C19_WitnessNoSession == out.msg = "no_session" /\ out.exit = 1 /\ session = NoSession

\* C22: for each outcome of the git query (success, nonzero exit, no
\* executable) a `start T` step on a todo task exits 0, leaves T in_progress
\* and a session naming T with step planning, without base_commit when the
\* query failed.
C22_GitFailureTolerated ==
    [][\A t \in Tasks, g \in GitQueryOutcomes :
          (EffectiveStatus(status[t]) = "todo" /\ cmd_start(t, g))
              => /\ out'.exit = 0
                 /\ status'[t] = "in_progress"
                 /\ session'.task = t /\ session'.step = "planning"
                 /\ g # "ok" => session'.base = NoValue]_vars

(***************************************************************************)
(* SpecLife: every command, two logging commands deep, over graphs of at   *)
(* most LifeMaxDeps edges: the life of the session file among all          *)
(* commands.                                                               *)
(***************************************************************************)
NextLife ==
    \/ QueryCmds
    \/ FlowCmds(LifeMaxLog, {"ok"}, {{}})
    \/ DepCmds(LifeMaxDeps, LifeMaxDeps)
    \/ SessionCmds

SpecLife == Init /\ [][NextLife]_vars

\* C20: a step that creates or replaces the session is a start or a step
\* update; a step that removes it is a done or a session clear; after a done
\* of an existing task and after a session clear no session exists.
C20_SessionLifecycle ==
    [][/\ (session' # session /\ session' # NoSession)
             => \/ \E t \in Tasks, g \in GitOutcomes : cmd_start(t, g)
                \/ /\ session # NoSession
                   /\ \E step \in Range(SESSION_STEPS) : cmd_session_step(step)
       /\ (session = NoSession /\ session' # NoSession)
             => \E t \in Tasks, g \in GitOutcomes : cmd_start(t, g)
       /\ (session # NoSession /\ session' = NoSession)
             => \/ \E t \in Tasks, ev \in EvidenceChoices : cmd_done(t, ev)
                \/ cmd_session_clear
       /\ session' # NoSession
             => /\ ~cmd_session_clear
                /\ ~\E t \in files, ev \in EvidenceChoices : cmd_done(t, ev)]_vars

\* C20 witness: the session named T1 and `done T2` removed it.
C20_Witness ==
    /\ history = << <<"START", "T1">>, <<"DONE", "T2">> >>
    /\ out.msg = "completed" /\ out.target = "T2"
    /\ session = NoSession

\* C20 second case: a session survived reset of its task, a dependency
\* edit, validate and a step update.
C20_WitnessSurvives ==
    /\ history = << <<"START", "T1">>, <<"RESET", "T1">> >>
    /\ TotalEdges = 1 /\ TotalDiscovered = 1
    /\ session.task = "T1" /\ session.step = "implementing"

(***************************************************************************)
(* SpecValidate: `validate` over hand-authored projects: every blocked-by  *)
(* graph of at most ValidateMaxDeps entries over the task ids and an id    *)
(* with no file (cycles of length 1 to 3, dangling entries, repeated       *)
(* entries), T3 with or without a status, and an epic that is clean, lacks *)
(* its status, or lists an id with no file.                                *)
(***************************************************************************)
ValidateLists == UNION {[1..n -> Ids] : n \in 0..ValidateMaxDeps}
ValidateGraphs == {g \in [Tasks -> ValidateLists] : SumLen(g, Tasks) <= ValidateMaxDeps}
ValidateEpics ==
    { [status |-> "open", tasks |-> <<"T1", "T2">>],
      [status |-> NoValue, tasks |-> <<"T1", "T2">>],
      [status |-> "open", tasks |-> <<"T1", Missing>>] }

InitValidate ==
    /\ specDir = TRUE
    /\ InitFrame
    /\ title = [t \in Tasks |-> PlainTitle]
    /\ files = Tasks
    /\ idField = [t \in Tasks |-> IF t = "T2" THEN NoValue ELSE t]
    /\ \E s3 \in {"todo", NoValue} :
          status = [t \in Tasks |-> CASE t = "T1" -> "todo" [] t = "T2" -> "done" [] OTHER -> s3]
    /\ priority = ProfilePriority
    /\ epic = ProfileEpic
    /\ blockedBy \in ValidateGraphs
    /\ discoveredFrom = [t \in Tasks |-> <<>>]
    /\ doneFields = [t \in Tasks |-> IF status[t] = "done" THEN {"done-at"} ELSE {}]
    /\ epicFiles = {"E1"}
    /\ \E ep \in ValidateEpics :
          /\ epicStatus = [e \in Epics |-> IF e = "E1" THEN ep.status ELSE NoValue]
          /\ epicTasks = [e \in Epics |-> IF e = "E1" THEN ep.tasks ELSE <<>>]
    /\ session = NoSession
    /\ progress = <<>>
    /\ history = <<>>
    /\ out = NoOutput

NextValidate == cmd_validate

SpecValidate == InitValidate /\ [][NextValidate]_vars

\* the defects validate looks for, stated over the files
DefectExists ==
    \/ \E t \in files : status[t] = NoValue
    \/ \E t \in files : \E i \in 1..Len(blockedBy[t]) : blockedBy[t][i] \notin files
    \/ \E e \in epicFiles : epicStatus[e] = NoValue
    \/ \E e \in epicFiles : \E i \in 1..Len(epicTasks[e]) : epicTasks[e][i] \notin files
    \/ ~Acyclic

\* C23: a `validate` step exits nonzero exactly when a defect exists (a task
\* or epic without status, a blocked-by or epic tasks entry naming no task
\* file, a dependency cycle), prints a finding for every defect of the
\* first four kinds and one for a cycle, and changes no file.
C23_ValidateExit ==
    [][cmd_validate
          => /\ UNCHANGED <<diskVars, history>>
             /\ out'.exit # 0 <=> DefectExists
             /\ out'.exit \in {0, 1}
             /\ \A t \in files :
                   /\ status[t] = NoValue => InSeq(<<"missing_status", t, NoValue>>, out'.ids)
                   /\ \A i \in 1..Len(blockedBy[t]) :
                         blockedBy[t][i] \notin files
                             => InSeq(<<"dangling_blocked_by", t, blockedBy[t][i]>>, out'.ids)
             /\ \A e \in epicFiles :
                   /\ epicStatus[e] = NoValue => InSeq(<<"missing_status", e, NoValue>>, out'.ids)
                   /\ \A i \in 1..Len(epicTasks[e]) :
                         epicTasks[e][i] \notin files
                             => InSeq(<<"dangling_epic_task", e, epicTasks[e][i]>>, out'.ids)
             /\ ~Acyclic => \E i \in 1..Len(out'.ids) : out'.ids[i][1] = "cycle"]_vars

\* C23 witness: one run reported a task without status, a dangling
\* blocked-by entry, a dangling epic entry and a cycle together.
C23_Witness ==
    /\ out.exit = 1 /\ out.msg = "issues"
    /\ \A kind \in {"missing_status", "dangling_blocked_by", "dangling_epic_task", "cycle"} :
          \E i \in 1..Len(out.ids) : out.ids[i][1] = kind

\* C23 second case: a project with dependencies and no defect passed.
C23_WitnessClean ==
    out.exit = 0 /\ out.msg = "no_issues" /\ TotalEdges = ValidateMaxDeps

\* a cycle is reachable from the task with this id
ReachesCycle(x) == \E y \in {x} \cup ReachableFrom(x) : y \in ReachableFrom(y)

\* C24: the cycle pass of validate yields a finding exactly when the
\* blocked-by graph has a directed cycle, yields at most one, and names the
\* first task of the enumeration from which a cycle is reachable.
C24_CycleFindingExact ==
    LET reaching == SelectSeq(find_tasks(NoValue), LAMBDA t : ReachesCycle(load_task_id(t)))
        printed == SelectSeq(out.ids, LAMBDA f : f[1] = "cycle")
    IN  /\ Len(cycle_issues) <= 1
        /\ cycle_issues # <<>> <=> ~Acyclic
        /\ cycle_issues # <<>> => cycle_issues = << <<"cycle", load_task_id(reaching[1]), NoValue>> >>
        /\ out.msg \in {"issues", "no_issues"} => printed = cycle_issues

\* C24 witness: T1 waits for an id with no task and reaches no cycle; T2 and
\* T3 wait for each other; validate reported the cycle for T2.
C24_Witness ==
    /\ blockedBy = [t \in Tasks |-> CASE t = "T1" -> <<Missing>> [] t = "T2" -> <<"T3">> [] OTHER -> <<"T2">>]
    /\ InSeq(<<"cycle", "T2", NoValue>>, out.ids)

\* C24 second case: a cycle through all three tasks.
C24_WitnessThree ==
    /\ blockedBy = [t \in Tasks |-> CASE t = "T1" -> <<"T2">> [] t = "T2" -> <<"T3">> [] OTHER -> <<"T1">>]
    /\ InSeq(<<"cycle", "T1", NoValue>>, out.ids)

(***************************************************************************)
(* SpecFrontmatter: serialize_frontmatter followed by parse_frontmatter on *)
(* metadata mappings of one or two keys whose values are strings, booleans *)
(* and lists of strings over a small alphabet (a letter, the space, the    *)
(* double quote, the brackets and the comma), with a body over the same    *)
(* alphabet.                                                               *)
(***************************************************************************)
RoundTripChars == {"a", " ", "\"", "[", "]", ","}
Texts == UNION {[1..n -> RoundTripChars] : n \in 0..MaxText}
ItemTexts == {x \in Texts : Len(x) <= 1}
ItemLists == UNION {[1..n -> ItemTexts] : n \in 0..MaxItems}
Values ==
    {StrValue(x) : x \in Texts}
        \cup {BoolValue("True"), BoolValue("False")}
        \cup {ListValue(xs) : xs \in ItemLists}
SecondValues == {StrValue(<<"a">>), ListValue(<< <<"a">> >>)}
FirstKey == <<"k">>
SecondKey == <<"l">>

RoundTripInputs ==
    {[metadata |-> << <<FirstKey, v>> >>, body |-> <<"a">>] : v \in Values}
        \cup {[metadata |-> << <<FirstKey, v>>, <<SecondKey, w>> >>, body |-> <<"a">>] :
                 v \in Values, w \in SecondValues}
        \cup {[metadata |-> md, body |-> b] :
                 md \in {<<>>, << <<FirstKey, StrValue(<<"a">>)>> >>}, b \in Texts}

InitFrontmatter ==
    /\ specDir = TRUE
    /\ reqs = {"R1"}
    /\ document \in RoundTripInputs
    /\ loaded = NoDocument
    /\ calls = [p \in Procs |-> IdleCall]
    /\ title = [t \in Tasks |-> PlainTitle]
    /\ files = Tasks
    /\ idField = [t \in Tasks |-> IF t = "T2" THEN NoValue ELSE t]
    /\ status = [t \in Tasks |-> "todo"]
    /\ priority = ProfilePriority
    /\ epic = ProfileEpic
    /\ blockedBy = [t \in Tasks |-> <<>>]
    /\ discoveredFrom = [t \in Tasks |-> <<>>]
    /\ doneFields = [t \in Tasks |-> {}]
    /\ epicFiles = {"E1"}
    /\ epicStatus = [e \in Epics |-> IF e = "E1" THEN "open" ELSE NoValue]
    /\ epicTasks = [e \in Epics |-> IF e = "E1" THEN <<"T1", "T2">> ELSE <<>>]
    /\ session = NoSession
    /\ progress = <<>>
    /\ history = <<>>
    /\ out = NoOutput

\* parse_frontmatter(serialize_frontmatter(metadata, body))
serialize_then_parse ==
    /\ loaded' = parse_frontmatter(serialize_frontmatter(document.metadata, document.body))
    /\ UNCHANGED <<fsVars, reqs, document, calls, taskVars, epicVars, session, logVars, out>>

NextFrontmatter == serialize_then_parse

SpecFrontmatter == InitFrontmatter /\ [][NextFrontmatter]_vars

\* C25: parse(serialize(m, body)) is (m, body): the same keys in the same
\* order, the same values with the same types, the same body.
C25_RoundTrip == loaded # NoDocument => loaded = document

\* a string the parser hands back as it is: not empty, no space or quote at
\* either end, not bracketed
PlainText(x) ==
    /\ x # <<>>
    /\ strip(strip(x, Whitespace), Quotes) = x
    /\ ~(startswith(x, <<"[">>) /\ endswith(x, <<"]">>))

\* The mappings that do come back unchanged: plain strings, the empty list,
\* lists of items without a space at either end, with a body without a space
\* at either end.
RoundTripOfPlainValues ==
    (/\ loaded # NoDocument
     /\ strip(document.body, Whitespace) = document.body
     /\ \A i \in 1..Len(document.metadata) :
           LET value == document.metadata[i][2]
           IN  \/ value.type = "str" /\ PlainText(value.v[1])
               \/ /\ value.type = "list"
                  /\ \A j \in 1..Len(value.v) :
                        value.v[j] # <<>> /\ strip(value.v[j], Whitespace) = value.v[j])
        => loaded = document

(***************************************************************************)
(* SpecRewrite: every command on the project of Init, where the authored   *)
(* file of T1 carries a title the parser loads as one of AuthoredTitles:   *)
(* a plain word, or a quoted scalar such as "[]", " a" or "".              *)
(***************************************************************************)
AuthoredTitles ==
    {PlainTitle, StrValue(<<"[", "]">>), StrValue(<<" ", "a">>), StrValue(<<>>)}

InitRewrite ==
    /\ specDir = TRUE
    /\ InitFrame
    /\ \E v \in AuthoredTitles : title = [t \in Tasks |-> IF t = "T1" THEN v ELSE PlainTitle]
    /\ files = Tasks
    /\ idField = [t \in Tasks |-> IF t = "T2" THEN NoValue ELSE t]
    /\ status = [t \in Tasks |-> IF t = "T3" THEN NoValue ELSE "todo"]
    /\ priority = ProfilePriority
    /\ epic = ProfileEpic
    /\ blockedBy = [t \in Tasks |-> <<>>]
    /\ discoveredFrom = [t \in Tasks |-> <<>>]
    /\ doneFields = [t \in Tasks |-> {}]
    /\ epicFiles = {"E1"}
    /\ epicStatus = [e \in Epics |-> IF e = "E1" THEN "open" ELSE NoValue]
    /\ epicTasks = [e \in Epics |-> IF e = "E1" THEN <<"T1", "T2">> ELSE <<>>]
    /\ session = NoSession
    /\ progress = <<>>
    /\ history = <<>>
    /\ out = NoOutput

NextRewrite ==
    \/ QueryCmds
    \/ FlowCmds(RewriteMaxLog, {"ok"}, {{}})
    \/ DepCmds(RewriteMaxDeps, RewriteMaxDeps)
    \/ SessionCmds

SpecRewrite == InitRewrite /\ [][NextRewrite]_vars

\* all that the file of task t holds
TaskFile(t) ==
    <<idField[t], status[t], priority[t], epic[t], blockedBy[t], discoveredFrom[t],
      doneFields[t], title[t]>>

\* C26: no step creates or deletes a task file or changes a task's id; no
\* step changes a requirement file; a step changes in a task file at most
\* status, the done-* fields, blocked-by and discovered-from; and a start,
\* done, reset, dep add or dep rm of T changes no other task's file.
C26_OnlyListedFieldsChange ==
    [][/\ files' = files /\ idField' = idField /\ reqs' = reqs
       /\ \A t \in Tasks :
             priority'[t] = priority[t] /\ epic'[t] = epic[t] /\ title'[t] = title[t]
       /\ \A t \in Tasks :
             (\/ cmd_start(t, "ok") \/ cmd_done(t, {}) \/ cmd_reset(t)
              \/ \E d \in Ids : cmd_dep_rm(t, d)
              \/ \E d \in Ids, ty \in DepTypes : cmd_dep_add(t, d, ty))
                 => \A u \in Tasks \ {t} : TaskFile(u)' = TaskFile(u)]_vars

(***************************************************************************)
(* SpecId: ready, validate, dep add and dep rm over projects in which each *)
(* task file carries an id equal to its stem or no id field at all, in     *)
(* every combination, with every blocked-by graph of at most IdMaxDeps     *)
(* entries.                                                                *)
(***************************************************************************)
IdFields == {f \in [Tasks -> Tasks \cup {NoValue}] : \A t \in Tasks : f[t] \in {t, NoValue}}
IdLists == UNION {[1..n -> Ids] : n \in 0..IdMaxDeps}
IdGraphs == {g \in [Tasks -> IdLists] : SumLen(g, Tasks) <= IdMaxDeps}

InitId ==
    /\ specDir = TRUE
    /\ InitFrame
    /\ title = [t \in Tasks |-> PlainTitle]
    /\ files = Tasks
    /\ idField \in IdFields
    /\ \E s1 \in {"todo", "done"} :
          status = [t \in Tasks |-> IF t = "T1" THEN s1 ELSE "todo"]
    /\ priority = ProfilePriority
    /\ epic = ProfileEpic
    /\ blockedBy \in IdGraphs
    /\ discoveredFrom = [t \in Tasks |-> <<>>]
    /\ doneFields = [t \in Tasks |-> IF status[t] = "done" THEN {"done-at"} ELSE {}]
    /\ epicFiles = {"E1"}
    /\ epicStatus = [e \in Epics |-> IF e = "E1" THEN "open" ELSE NoValue]
    /\ epicTasks = [e \in Epics |-> IF e = "E1" THEN <<"T1", "T2">> ELSE <<>>]
    /\ session = NoSession
    /\ progress = <<>>
    /\ history = <<>>
    /\ out = NoOutput

NextId ==
    \/ QueryCmds
    \/ \E t \in Tasks, d \in Tasks : cmd_dep_add(t, d, "blocks") /\ TotalEdges' <= IdMaxDeps
    \/ \E t \in Tasks, d \in Ids : cmd_dep_rm(t, d)

SpecId == InitId /\ [][NextId]_vars

\* the blocked-by graph over file stems, read without any id field
StemEdge(x, y) == x \in files /\ InSeq(y, blockedBy[x])

RECURSIVE StemReachIn(_, _)
StemReachIn(front, seen) ==
    LET next == {y \in Ids : \E x \in front : StemEdge(x, y)} \ seen
    IN  IF next = {} THEN seen ELSE StemReachIn(next, seen \cup next)

StemReachableFrom(x) == StemReachIn({x}, {})
StemDone == {t \in files : status[t] = "done"}

\* C27: whichever task files lack the id field, every task is known by its
\* file stem: ready lists the todo tasks whose blocked-by entries are stems
\* of done tasks, the cycle check of dep add answers by reachability over
\* stems, and validate names its findings and finds cycles by stems.
C27_StemIsId ==
    /\ \A t \in files : load_task_id(t) = t
    /\ Range(get_ready_tasks(NoValue)) =
          {t \in files : status[t] = "todo" /\ \A i \in 1..Len(blockedBy[t]) : blockedBy[t][i] \in StemDone}
    /\ \A t \in Tasks, d \in Tasks :
          would_create_cycle(t, d) # NoPath <=> (t = d \/ t \in StemReachableFrom(d))
    /\ cycle_issues # <<>> <=> \E t \in files : t \in StemReachableFrom(t)
    /\ \A i \in 1..Len(validate_issues) : validate_issues[i][2] \in files \cup epicFiles

\* C27 witness: T2 has no id field and is blocked by T1, which is done and
\* has no id field either; ready listed T2, and `dep add T1 T2` was refused.
C27_Witness ==
    /\ idField["T1"] = NoValue /\ idField["T2"] = NoValue
    /\ status["T1"] = "done" /\ blockedBy["T2"] = <<"T1">>
    /\ InSeq("T2", get_ready_tasks(NoValue))
    /\ out.msg = "cycle" /\ out.ids = <<"T2", "T1">>

(***************************************************************************)
(* Commands step by step.  An invocation of start, done, reset, epic close *)
(* --force or dep add (blocks) that passes its checks runs as the sequence *)
(* of its file operations: the read and the write of update_frontmatter    *)
(* (of cmd_reset's own read and write), then log_progress, then the        *)
(* session change.  Between two operations another invocation may run, or  *)
(* the process may die.                                                    *)
(***************************************************************************)
stepFrame == <<fsVars, reqs, document, loaded>>

snapshot_of(t) ==
    [status |-> status[t], blockedBy |-> blockedBy[t], discoveredFrom |-> discoveredFrom[t],
     doneFields |-> doneFields[t], title |-> title[t]]

LogAction(cmd) ==
    CASE cmd = "start" -> "START"
      [] cmd = "done" -> "DONE"
      [] cmd = "reset" -> "RESET"
      [] OTHER -> "CLOSE"

SuccessMsg(cmd) ==
    CASE cmd = "start" -> "started"
      [] cmd = "done" -> "completed"
      [] cmd = "reset" -> "reset"
      [] cmd = "dep_add" -> "blocked"
      [] OTHER -> "closed"

LastWrite == CHOOSE n \in {calls[q].wrote : q \in Procs} : \A q \in Procs : calls[q].wrote <= n

\* Mutant: dep add does not look for a cycle.
call_begin_unchecked(p, cmd, target, dep) ==
    /\ specDir
    /\ calls[p].pc \in {"idle", "exit", "crashed"}
    /\ CASE cmd = "start" -> target \in files /\ status[target] \in {"todo", NoValue}
         [] cmd = "done" -> target \in files
         [] cmd = "reset" -> target \in files /\ status[target] \in {"in_progress", "done"}
         [] cmd = "dep_add" -> /\ target \in files /\ dep \in files
                               /\ ~InSeq(dep, blockedBy[target])
         [] OTHER -> target \in epicFiles /\ epicStatus[target] # "done"
    /\ calls' = [calls EXCEPT ![p] =
                    [pc |-> "read", cmd |-> cmd, target |-> target, dep |-> dep,
                     local |-> IF cmd = "dep_add" THEN Append(blockedBy[target], dep) ELSE <<>>,
                     snapshot |-> NoSnapshot, wrote |-> 0, seen |-> LastWrite]]
    /\ UNCHANGED <<stepFrame, taskVars, epicVars, session, logVars, out>>

\* the command function up to and including its load_task / load_epic: the
\* checks that precede the first write pass; dep add keeps the blocked-by
\* list it loaded, with the new entry appended
call_begin(p, cmd, target, dep) ==
    /\ specDir
    /\ calls[p].pc \in {"idle", "exit", "crashed"}
    /\ CASE cmd = "start" -> target \in files /\ status[target] \in {"todo", NoValue}
         [] cmd = "done" -> target \in files
         [] cmd = "reset" -> target \in files /\ status[target] \in {"in_progress", "done"}
         [] cmd = "dep_add" -> /\ target \in files /\ dep \in files
                               /\ ~InSeq(dep, blockedBy[target])
                               /\ would_create_cycle(target, dep) = NoPath
         [] OTHER -> target \in epicFiles /\ epicStatus[target] # "done"
    /\ calls' = [calls EXCEPT ![p] =
                    [pc |-> "read", cmd |-> cmd, target |-> target, dep |-> dep,
                     local |-> IF cmd = "dep_add" THEN Append(blockedBy[target], dep) ELSE <<>>,
                     snapshot |-> NoSnapshot, wrote |-> 0, seen |-> LastWrite]]
    /\ UNCHANGED <<stepFrame, taskVars, epicVars, session, logVars, out>>

\* Mutant: the log entry is appended before the file is written.
update_frontmatter_read_logging(p) ==
    LET c == calls[p]
    IN  /\ c.pc = "read"
        /\ calls' = [calls EXCEPT ![p].pc = "write",
                                  ![p].snapshot =
                                      IF c.cmd = "epic_close"
                                      THEN [NoSnapshot EXCEPT !.status = epicStatus[c.target]]
                                      ELSE snapshot_of(c.target)]
        /\ IF c.cmd = "dep_add" THEN UNCHANGED logVars ELSE Log(LogAction(c.cmd), c.target)
        /\ UNCHANGED <<stepFrame, taskVars, epicVars, session, out>>

\* update_frontmatter: content = filepath.read_text(); parse_frontmatter
update_frontmatter_read(p) ==
    LET c == calls[p]
    IN  /\ c.pc = "read"
        /\ calls' = [calls EXCEPT ![p].pc = "write",
                                  ![p].snapshot =
                                      IF c.cmd = "epic_close"
                                      THEN [NoSnapshot EXCEPT !.status = epicStatus[c.target]]
                                      ELSE snapshot_of(c.target)]
        /\ UNCHANGED <<stepFrame, taskVars, epicVars, session, logVars, out>>

\* metadata.update(updates) on what was read
updated(c) ==
    CASE c.cmd = "start" -> [c.snapshot EXCEPT !.status = "in_progress"]
      [] c.cmd = "done" -> [c.snapshot EXCEPT !.status = "done", !.doneFields = @ \cup {"done-at"}]
      [] c.cmd = "reset" -> [c.snapshot EXCEPT !.status = "todo", !.doneFields = {}]
      [] c.cmd = "dep_add" -> [c.snapshot EXCEPT !.blockedBy = c.local]
      [] OTHER -> [c.snapshot EXCEPT !.status = "done"]

\* Mutant: the write is skipped when the file changed since it was read.
update_frontmatter_write_if_unchanged(p) ==
    LET c == calls[p]
        new == updated(c)
        t == c.target
        stale == c.cmd # "epic_close" /\ snapshot_of(t) # c.snapshot
    IN  /\ c.pc = "write"
        /\ calls' = [calls EXCEPT ![p].pc = IF c.cmd = "dep_add" THEN "exit" ELSE "log",
                                  ![p].wrote = LastWrite + 1]
        /\ IF c.cmd = "epic_close"
           THEN /\ epicStatus' = [epicStatus EXCEPT ![t] = new.status]
                /\ UNCHANGED <<taskVars, epicFiles, epicTasks>>
           ELSE IF stale
           THEN UNCHANGED <<taskVars, epicVars>>
           ELSE /\ status' = [status EXCEPT ![t] = new.status]
                /\ blockedBy' = [blockedBy EXCEPT ![t] = new.blockedBy]
                /\ discoveredFrom' = [discoveredFrom EXCEPT ![t] = new.discoveredFrom]
                /\ doneFields' = [doneFields EXCEPT ![t] = new.doneFields]
                /\ title' = [title EXCEPT ![t] = rewrite(new.title)]
                /\ UNCHANGED <<idField, priority, epic, epicVars>>
        /\ out' = IF c.cmd = "dep_add" THEN Output(0, SuccessMsg(c.cmd), t, <<c.dep>>) ELSE out
        /\ UNCHANGED <<stepFrame, session, logVars>>

\* update_frontmatter: filepath.write_text(serialize_frontmatter(metadata, body));
\* for dep add the success message follows and the command returns
update_frontmatter_write(p) ==
    LET c == calls[p]
        new == updated(c)
        t == c.target
    IN  /\ c.pc = "write"
        /\ calls' = [calls EXCEPT ![p].pc = IF c.cmd = "dep_add" THEN "exit" ELSE "log",
                                  ![p].wrote = LastWrite + 1]
        /\ IF c.cmd = "epic_close"
           THEN /\ epicStatus' = [epicStatus EXCEPT ![t] = new.status]
                /\ UNCHANGED <<taskVars, epicFiles, epicTasks>>
           ELSE /\ status' = [status EXCEPT ![t] = new.status]
                /\ blockedBy' = [blockedBy EXCEPT ![t] = new.blockedBy]
                /\ discoveredFrom' = [discoveredFrom EXCEPT ![t] = new.discoveredFrom]
                /\ doneFields' = [doneFields EXCEPT ![t] = new.doneFields]
                /\ title' = [title EXCEPT ![t] = rewrite(new.title)]
                /\ UNCHANGED <<idField, priority, epic, epicVars>>
        /\ out' = IF c.cmd = "dep_add" THEN Output(0, SuccessMsg(c.cmd), t, <<c.dep>>) ELSE out
        /\ UNCHANGED <<stepFrame, session, logVars>>

\* log_progress(ACTION, id); reset and epic close print and return after it
call_log_progress(p) ==
    LET c == calls[p]
        last == c.cmd \in {"reset", "epic_close"}
    IN  /\ c.pc = "log"
        /\ Log(LogAction(c.cmd), c.target)
        /\ calls' = [calls EXCEPT ![p].pc = IF last THEN "exit" ELSE "session"]
        /\ out' = IF last THEN Output(0, SuccessMsg(c.cmd), c.target, <<>>) ELSE out
        /\ UNCHANGED <<stepFrame, taskVars, epicVars, session>>

\* session_start(task_id) in start, session_end() in done; then the success
\* message and the return
call_session(p) ==
    LET c == calls[p]
    IN  /\ c.pc = "session"
        /\ session' = IF c.cmd = "start" THEN session_start(c.target, "ok") ELSE NoSession
        /\ calls' = [calls EXCEPT ![p].pc = "exit"]
        /\ out' = Output(0, SuccessMsg(c.cmd), c.target, <<>>)
        /\ UNCHANGED <<stepFrame, taskVars, epicVars, logVars>>

\* the process dies between two file operations
call_crash(p) ==
    /\ calls[p].pc \in {"read", "write", "log", "session"}
    /\ calls' = [calls EXCEPT ![p].pc = "crashed"]
    /\ UNCHANGED <<stepFrame, taskVars, epicVars, session, logVars, out>>

(***************************************************************************)
(* SpecRace: two invocations, each of `dep add T1 T2`, `dep add T1 T3` or  *)
(* `start T1`, running concurrently on the project of Init.                *)
(***************************************************************************)
RaceInputs == {<<"dep_add", "T1", "T2">>, <<"dep_add", "T1", "T3">>, <<"start", "T1", NoValue>>}

NextRace ==
    \E p \in Procs :
        \/ calls[p].pc = "idle" /\ \E c \in RaceInputs : call_begin(p, c[1], c[2], c[3])
        \/ update_frontmatter_read(p)
        \/ update_frontmatter_write(p)
        \/ call_log_progress(p)
        \/ call_session(p)

SpecRace == Init /\ [][NextRace]_vars

\* the file of the call's target holds the call's update
UpdatePresent(c) ==
    IF c.cmd = "dep_add"
    THEN blockedBy[c.target] = c.local
    ELSE status[c.target] = "in_progress"

\* C28: every invocation reports success, and the task file holds the update
\* of the invocation that wrote it last, whatever the other one wrote.
C28_LastWriterWins ==
    /\ out.exit = 0
    /\ \A p \in Procs :
          (calls[p].wrote > 0 /\ calls[p].wrote = LastWrite) => UpdatePresent(calls[p])

\* C28 witness: `dep add T1 T2` and `dep add T1 T3` both returned with
\* success and T1 is blocked by T3 alone: the entry T2 is lost.
C28_Witness ==
    /\ \A p \in Procs : calls[p].pc = "exit" /\ calls[p].cmd = "dep_add"
    /\ {calls[p].dep : p \in Procs} = {"T2", "T3"}
    /\ blockedBy["T1"] = <<"T3">>

\* C28 second case: `dep add T1 T2` and `start T1` both returned with
\* success; T1 is in progress and the entry T2 is lost.
C28_WitnessStart ==
    /\ \A p \in Procs : calls[p].pc = "exit"
    /\ {calls[p].cmd : p \in Procs} = {"dep_add", "start"}
    /\ status["T1"] = "in_progress" /\ blockedBy["T1"] = <<>>

\* C28 third case: the same two commands; the entry is kept and the status
\* start wrote is lost, while the log and the session say T1 was started.
C28_WitnessStartLost ==
    /\ \A p \in Procs : calls[p].pc = "exit"
    /\ status["T1"] = "todo" /\ blockedBy["T1"] = <<"T2">>
    /\ session.task = "T1" /\ history = << <<"START", "T1">> >>

(***************************************************************************)
(* SpecCrash: one invocation after another of start, done, reset and epic  *)
(* close --force, each of which may die between two file operations.  T2   *)
(* was started before: it is in progress and the session names it.         *)
(***************************************************************************)
InitCrash ==
    /\ specDir = TRUE
    /\ InitFrame
    /\ title = [t \in Tasks |-> PlainTitle]
    /\ files = Tasks
    /\ idField = [t \in Tasks |-> IF t = "T2" THEN NoValue ELSE t]
    /\ status = [t \in Tasks |-> CASE t = "T1" -> "todo" [] t = "T2" -> "in_progress" [] OTHER -> "done"]
    /\ priority = ProfilePriority
    /\ epic = ProfileEpic
    /\ blockedBy = [t \in Tasks |-> <<>>]
    /\ discoveredFrom = [t \in Tasks |-> <<>>]
    /\ doneFields = [t \in Tasks |-> IF t = "T3" THEN {"done-at"} ELSE {}]
    /\ epicFiles = {"E1"}
    /\ epicStatus = [e \in Epics |-> IF e = "E1" THEN "open" ELSE NoValue]
    /\ epicTasks = [e \in Epics |-> IF e = "E1" THEN <<"T1", "T2">> ELSE <<>>]
    /\ session = session_start("T2", "ok")
    /\ progress = << <<"START", "T2">> >>
    /\ history = << <<"START", "T2">> >>
    /\ out = NoOutput

CrashInputs ==
    {<<"start", "T1">>, <<"done", "T2">>, <<"done", "T1">>, <<"reset", "T2">>, <<"reset", "T3">>,
     <<"epic_close", "E1">>}

NextCrash ==
    \/ /\ Len(history) <= CrashMaxLog
       /\ \E c \in CrashInputs : call_begin("p1", c[1], c[2], NoValue)
    \/ update_frontmatter_read("p1")
    \/ update_frontmatter_write("p1")
    \/ call_log_progress("p1")
    \/ call_session("p1")
    \/ call_crash("p1")

SpecCrash == InitCrash /\ [][NextCrash]_vars

\* the metadata change the command of a log entry makes
OnDisk(entry) ==
    CASE entry[1] = "START" -> status[entry[2]] = "in_progress"
      [] entry[1] = "DONE" -> status[entry[2]] = "done" /\ "done-at" \in doneFields[entry[2]]
      [] entry[1] = "RESET" -> status[entry[2]] = "todo" /\ doneFields[entry[2]] = {}
      [] OTHER -> epicStatus[entry[2]] = "done"

\* C29: the step that appends a command's log entry finds the command's
\* metadata change already on disk and changes neither metadata nor
\* session; the step that changes the session finds the command's entry
\* last in the log and changes neither metadata nor log; the step that
\* writes metadata changes neither log nor session.
C29_WriteLogSession ==
    [][/\ history' # history
             => /\ OnDisk(history'[Len(history')])
                /\ UNCHANGED <<taskVars, epicVars, session>>
       /\ session' # session
             => /\ history[Len(history)] =
                      (IF session' = NoSession
                       THEN <<"DONE", calls["p1"].target>>
                       ELSE <<"START", session'.task>>)
                /\ OnDisk(history[Len(history)])
                /\ UNCHANGED <<taskVars, epicVars, logVars>>
       /\ (taskVars' # taskVars \/ epicVars' # epicVars)
             => UNCHANGED <<session, logVars>>]_vars

\* C29 witness: start T1 died after its write: T1 is in progress, the log
\* has no entry for it and the session still names T2.
C29_Witness ==
    /\ calls["p1"].pc = "crashed" /\ calls["p1"].cmd = "start"
    /\ status["T1"] = "in_progress"
    /\ history = << <<"START", "T2">> >>
    /\ session.task = "T2"

\* C29 second case: start T1 died after the log append: metadata and log
\* are updated, the session still names T2.
C29_WitnessLogged ==
    /\ calls["p1"].pc = "crashed" /\ calls["p1"].cmd = "start"
    /\ status["T1"] = "in_progress"
    /\ history = << <<"START", "T2">>, <<"START", "T1">> >>
    /\ session.task = "T2"

\* C29 third case: done T2 died after the log append and the session of T2
\* is still there.
C29_WitnessDone ==
    /\ calls["p1"].pc = "crashed" /\ calls["p1"].cmd = "done"
    /\ status["T2"] = "done"
    /\ history = << <<"START", "T2">>, <<"DONE", "T2">> >>
    /\ session.task = "T2"

(***************************************************************************)
(* SpecNoSpec: a directory without .spec/.  ready, status and validate run *)
(* there; init creates the structure, after which task files are written   *)
(* by hand (no command creates them) and the same queries run again.       *)
(***************************************************************************)
\* specctl init; the git hook it installs lies outside .spec/
cmd_init ==
    IF specDir
    THEN print_return("already_exists", <<>>)
    ELSE /\ specDir' = TRUE
         /\ progress' = << <<"INIT", ".spec/">> >>
         /\ out' = Output(0, "created", NoValue, <<>>)
         /\ UNCHANGED <<files, reqs, document, loaded, calls, taskVars, epicVars, session, history>>

\* the overview's counts: total, done, in_progress, todo
status_counts ==
    LET all == find_tasks(NoValue)
        count(v) == Len(SelectSeq(all, LAMBDA t : status[t] = v))
    IN  <<Len(all), count("done"), count("in_progress"), count("todo")>>

\* Mutant: status answers without looking for .spec/.
cmd_status_unchecked(id, json) ==
    IF id # NoValue
    THEN IF id \in files
         THEN /\ out' = Output(0, "task", load_task_id(id), blockedBy[id])
              /\ UNCHANGED <<frameVars, taskVars, epicVars, session, logVars>>
         ELSE IF id \in epicFiles
         THEN /\ out' = Output(0, "epic", id, epicTasks[id])
              /\ UNCHANGED <<frameVars, taskVars, epicVars, session, logVars>>
         ELSE error_exit("not_found", <<>>)
    ELSE IF json
    THEN print_return("counts", status_counts)
    ELSE print_return("overview", SelectSeq(find_tasks(NoValue), LAMBDA t : status[t] = "in_progress"))

\* specctl status [ID] [--json]: a task, else an epic, else "Not found";
\* without ID the overview, of which the record carries the counts (--json)
\* or the in-progress listing
cmd_status(id, json) ==
    IF ~specDir
    THEN error_exit("no_spec", <<>>)
    ELSE IF id # NoValue
    THEN IF id \in files
         THEN /\ out' = Output(0, "task", load_task_id(id), blockedBy[id])
              /\ UNCHANGED <<frameVars, taskVars, epicVars, session, logVars>>
         ELSE IF id \in epicFiles
         THEN /\ out' = Output(0, "epic", id, epicTasks[id])
              /\ UNCHANGED <<frameVars, taskVars, epicVars, session, logVars>>
         ELSE error_exit("not_found", <<>>)
    ELSE IF json
    THEN print_return("counts", status_counts)
    ELSE print_return("overview", SelectSeq(find_tasks(NoValue), LAMBDA t : status[t] = "in_progress"))

\* specctl validate --json: the validate parser knows --all only
cmd_validate_json == parser_error("unrecognized_arguments")

\* a task file written by hand into .spec/tasks/
author_task(t, s) ==
    /\ specDir
    /\ t \notin files
    /\ files' = files \cup {t}
    /\ idField' = [idField EXCEPT ![t] = t]
    /\ status' = [status EXCEPT ![t] = s]
    /\ title' = [title EXCEPT ![t] = PlainTitle]
    /\ UNCHANGED <<specDir, reqs, document, loaded, calls, priority, epic, blockedBy,
                   discoveredFrom, doneFields, epicVars, session, logVars, out>>

InitNoSpec ==
    /\ specDir = FALSE
    /\ reqs = {}
    /\ document = NoDocument
    /\ loaded = NoDocument
    /\ calls = [p \in Procs |-> IdleCall]
    /\ files = {}
    /\ title = [t \in Tasks |-> AbsentValue]
    /\ idField = [t \in Tasks |-> NoValue]
    /\ status = [t \in Tasks |-> NoValue]
    /\ priority = [t \in Tasks |-> NoValue]
    /\ epic = [t \in Tasks |-> NoValue]
    /\ blockedBy = [t \in Tasks |-> <<>>]
    /\ discoveredFrom = [t \in Tasks |-> <<>>]
    /\ doneFields = [t \in Tasks |-> {}]
    /\ epicFiles = {}
    /\ epicStatus = [e \in Epics |-> NoValue]
    /\ epicTasks = [e \in Epics |-> <<>>]
    /\ session = NoSession
    /\ progress = <<>>
    /\ history = <<>>
    /\ out = NoOutput

StatusIds == {NoValue, "T1", "E1"}

ReadyCall == \E e \in EpicFilters, json \in BOOLEAN : cmd_ready(e, json)
StatusCall == \E id \in StatusIds, json \in BOOLEAN : cmd_status(id, json)
ValidateCall == cmd_validate \/ cmd_validate_json

NextNoSpec ==
    \/ ReadyCall
    \/ StatusCall
    \/ cmd_validate
    \/ cmd_validate_json
    \/ cmd_init
    \/ \E t \in Tasks, s \in {"todo", "in_progress", "done", NoValue} : author_task(t, s)

SpecNoSpec == InitNoSpec /\ [][NextNoSpec]_vars

\* C30: without .spec/, every run of ready, status or validate, with or
\* without --json, ends with a nonzero exit status, and afterwards there is
\* still no .spec/ and no file of it.
C30_NoSpecNoEffect ==
    [][(~specDir /\ (ReadyCall \/ StatusCall \/ ValidateCall))
          => /\ out'.exit # 0
             /\ ~specDir'
             /\ files' = {} /\ epicFiles' = {} /\ reqs' = {}
             /\ session' = NoSession /\ progress' = <<>>]_vars

\* C30 witness: a query has answered ".spec/ not found" with exit 1 and
\* there is no .spec/.
C30_Witness == ~specDir /\ out.exit = 1 /\ out.msg = "no_spec" /\ files = {} /\ progress = <<>>

\* C30 second case: validate --json, refused by the argument parser with
\* exit 2, no .spec/ either.
C30_WitnessJson == ~specDir /\ out.exit = 2 /\ out.msg = "unrecognized_arguments"

(***************************************************************************)
(* SpecCycle: the two cycle searches on hand-written graphs: any           *)
(* blocked-by lists over the three tasks and one id without a file, self   *)
(* references and cycles included; dep add, dep rm and validate run on     *)
(* them.                                                                   *)
(***************************************************************************)
CycleLists == UNION {[1..n -> Ids] : n \in 0..CycleMaxDeps}
CycleGraphs == {g \in [Tasks -> CycleLists] : SumLen(g, Tasks) <= CycleMaxDeps}

InitCycle ==
    /\ specDir = TRUE
    /\ InitFrame
    /\ title = [t \in Tasks |-> PlainTitle]
    /\ files = Tasks
    /\ idField = [t \in Tasks |-> IF t = "T2" THEN NoValue ELSE t]
    /\ status = [t \in Tasks |-> "todo"]
    /\ priority = ProfilePriority
    /\ epic = ProfileEpic
    /\ blockedBy \in CycleGraphs
    /\ discoveredFrom = [t \in Tasks |-> <<>>]
    /\ doneFields = [t \in Tasks |-> {}]
    /\ epicFiles = {"E1"}
    /\ epicStatus = [e \in Epics |-> IF e = "E1" THEN "open" ELSE NoValue]
    /\ epicTasks = [e \in Epics |-> IF e = "E1" THEN <<"T1", "T2">> ELSE <<>>]
    /\ session = NoSession
    /\ progress = <<>>
    /\ history = <<>>
    /\ out = NoOutput

NextCycle ==
    \/ \E t \in Tasks, d \in Tasks : cmd_dep_add(t, d, "blocks") /\ TotalEdges' <= CycleMaxDeps
    \/ \E t \in Tasks, d \in Ids : cmd_dep_rm(t, d)
    \/ cmd_validate

SpecCycle == InitCycle /\ [][NextCycle]_vars

NoRepeat(p) == \A i, j \in 1..Len(p) : p[i] = p[j] => i = j
FollowsEdges(p) == \A i \in 1..(Len(p) - 1) : Edge(p[i], p[i + 1])
SelfLoopFree == \A x \in Ids : ~Edge(x, x)

\* what C31 says of one pair
CycleCheckExact(t, d) ==
    LET p == would_create_cycle(t, d)
    IN  /\ p # NoPath <=> (d = t \/ t \in ReachableFrom(d))
        /\ p # NoPath => /\ p[1] = d /\ p[Len(p)] = t
                         /\ NoRepeat(p)
                         /\ FollowsEdges(p)
        /\ p = dfs_existing_edges(t, d, <<>>)

\* C31: for every task T and candidate D, would_create_cycle(T, D) returns
\* a path exactly when D = T or T is reachable from D over blocked-by edges;
\* the path starts at D, ends at T, visits no task twice and follows edges;
\* the result is that of the search without the redundant branch.
C31_CycleCheckExact == \A t \in Ids, d \in Ids : CycleCheckExact(t, d)

\* the same with "visits no task twice" asked only of graphs in which no
\* task names itself
CycleCheckExactButRepeats ==
    \A t \in Ids, d \in Ids :
        LET p == would_create_cycle(t, d)
        IN  /\ p # NoPath <=> (d = t \/ t \in ReachableFrom(d))
            /\ p # NoPath => /\ p[1] = d /\ p[Len(p)] = t
                             /\ SelfLoopFree => NoRepeat(p)
                             /\ FollowsEdges(p)
            /\ p = dfs_existing_edges(t, d, <<>>)

(***************************************************************************)
(* The two searches with their calls counted.  A search that has made      *)
(* DfsFuel calls is cut off; a count above DfsFuel in the result says so.        *)
(***************************************************************************)
Occurrences(x, p) == Cardinality({i \in 1..Len(p) : p[i] = x})
CutOff == [result |-> NoPath, count |-> DfsFuel + 1, twice |-> FALSE, thrice |-> FALSE]

RECURSIVE dfs_no_skip(_, _, _, _, _)
RECURSIVE dfs_no_skip_loop(_, _, _, _, _, _, _)
dfs_no_skip(task_id, new_dep_id, current, path, n) ==
    IF n >= DfsFuel
    THEN CutOff
    ELSE IF current = task_id
    THEN [result |-> Append(path, current), count |-> n + 1, twice |-> FALSE, thrice |-> FALSE]
    ELSE dfs_no_skip_loop(task_id, new_dep_id, current, path, get_deps(current), 1, n + 1)

dfs_no_skip_loop(task_id, new_dep_id, current, path, deps, i, n) ==
    IF i > Len(deps)
    THEN [result |-> NoPath, count |-> n, twice |-> FALSE, thrice |-> FALSE]
    ELSE LET r == dfs_no_skip(task_id, new_dep_id, deps[i], Append(path, current), n)
         IN  IF r.result # NoPath \/ r.count > DfsFuel
             THEN r
             ELSE dfs_no_skip_loop(task_id, new_dep_id, current, path, deps, i + 1, r.count)

\* Mutant: the search recurses into dependencies that are already in path.
would_create_cycle_no_skip(task_id, new_dep_id) ==
    dfs_no_skip(task_id, new_dep_id, new_dep_id, <<>>, 0)

RECURSIVE dfs_counted(_, _, _, _, _)
RECURSIVE dfs_counted_loop(_, _, _, _, _, _, _)
\* dfs(current, path) as call number n + 1; twice: some call was made
\* for a node that is in the path handed to it; thrice: for a node that is
\* in it more than once
dfs_counted(task_id, new_dep_id, current, path, n) ==
    LET here == [twice |-> InSeq(current, path), thrice |-> Occurrences(current, path) > 1]
    IN  IF n >= DfsFuel
        THEN CutOff
        ELSE IF current = task_id
        THEN [result |-> Append(path, current), count |-> n + 1,
              twice |-> here.twice, thrice |-> here.thrice]
        ELSE LET r == dfs_counted_loop(task_id, new_dep_id, current, path,
                                       get_deps(current), 1, n + 1)
             IN  [r EXCEPT !.twice = @ \/ here.twice, !.thrice = @ \/ here.thrice]

dfs_counted_loop(task_id, new_dep_id, current, path, deps, i, n) ==
    IF i > Len(deps)
    THEN [result |-> NoPath, count |-> n, twice |-> FALSE, thrice |-> FALSE]
    ELSE IF InSeq(deps[i], path)
    THEN dfs_counted_loop(task_id, new_dep_id, current, path, deps, i + 1, n)
    ELSE LET r == dfs_counted(task_id, new_dep_id, deps[i], Append(path, current), n)
         IN  IF r.result # NoPath \/ r.count > DfsFuel
             THEN r
             ELSE LET rest == dfs_counted_loop(task_id, new_dep_id, current, path, deps,
                                               i + 1, r.count)
                  IN  [rest EXCEPT !.twice = @ \/ r.twice, !.thrice = @ \/ r.thrice]

would_create_cycle_counted(task_id, new_dep_id) ==
    dfs_counted(task_id, new_dep_id, new_dep_id, <<>>, 0)

RECURSIVE has_cycle_counted(_, _, _, _)
RECURSIVE has_cycle_counted_loop(_, _, _, _, _)
\* has_cycle with the nodes it expands (passes both membership tests and
\* walks the blocked-by list of) listed in order
has_cycle_counted(task_id, visited, path, expanded) ==
    IF task_id \in path
    THEN [found |-> TRUE, visited |-> visited, expanded |-> expanded]
    ELSE IF task_id \in visited
         THEN [found |-> FALSE, visited |-> visited, expanded |-> expanded]
         ELSE has_cycle_counted_loop(get_deps(task_id), 1, visited \cup {task_id},
                                     path \cup {task_id}, Append(expanded, task_id))

has_cycle_counted_loop(deps, i, visited, path, expanded) ==
    IF i > Len(deps)
    THEN [found |-> FALSE, visited |-> visited, expanded |-> expanded]
    ELSE LET r == has_cycle_counted(deps[i], visited, path, expanded)
         IN  IF r.found
             THEN r
             ELSE has_cycle_counted_loop(deps, i + 1, r.visited, path, r.expanded)

C32_WitnessValidate ==
    /\ blockedBy = [t \in Tasks |-> CASE t = "T1" -> <<Missing>> [] t = "T2" -> <<"T3">> [] OTHER -> <<"T2">>]
    /\ out.msg = "issues"

(***************************************************************************)
(* SpecWork: a project whose blocked-by graph is acyclic and names only    *)
(* tasks that have a file, every task with a status field, in any          *)
(* combination of statuses.  The operator keeps working: starts a task     *)
(* that `ready` lists, or completes a task that is in progress.            *)
(***************************************************************************)
WorkLists == UNION {[1..n -> Tasks] : n \in 0..WorkMaxDeps}
WorkGraphs == {g \in [Tasks -> WorkLists] : SumLen(g, Tasks) <= WorkMaxDeps}

InitWork ==
    /\ specDir = TRUE
    /\ InitFrame
    /\ title = [t \in Tasks |-> PlainTitle]
    /\ files = Tasks
    /\ idField = [t \in Tasks |-> IF t = "T2" THEN NoValue ELSE t]
    /\ status \in [Tasks -> Range(TASK_STATUS)]
    /\ priority = ProfilePriority
    /\ epic = ProfileEpic
    /\ blockedBy \in WorkGraphs
    /\ Acyclic
    /\ discoveredFrom = [t \in Tasks |-> <<>>]
    /\ doneFields = [t \in Tasks |-> IF status[t] = "done" THEN {"done-at"} ELSE {}]
    /\ epicFiles = {"E1"}
    /\ epicStatus = [e \in Epics |-> IF e = "E1" THEN "open" ELSE NoValue]
    /\ epicTasks = [e \in Epics |-> IF e = "E1" THEN <<"T1", "T2">> ELSE <<>>]
    /\ session = NoSession
    /\ progress = <<>>
    /\ history = <<>>
    /\ out = NoOutput

start_ready == \E t \in Tasks, g \in GitOutcomes : InSeq(t, get_ready_tasks(NoValue)) /\ cmd_start(t, g)
done_started == \E t \in Tasks : status[t] = "in_progress" /\ cmd_done(t, {})

NextWork ==
    \/ start_ready
    \/ done_started

\* a step of NextWork is possible: start takes any listed task, done any
\* task with a file
CanWork == get_ready_tasks(NoValue) # <<>> \/ \E t \in files : status[t] = "in_progress"

\* the operator does not stop while a step is possible: weak fairness of
\* NextWork, WF_vars(NextWork), with CanWork for ENABLED <<NextWork>>_vars
WorkFairness == []<>(~CanWork) \/ []<><<NextWork>>_vars

SpecWork == InitWork /\ [][NextWork]_vars /\ WorkFairness

AllDone == \A t \in files : status[t] = "done"

\* C33: in every state with an acyclic blocked-by graph without dangling
\* references, a todo task and no task in progress mean that `ready` lists
\* a task; and an operator who keeps starting ready tasks and completing
\* started ones ends with every task done.
C33_NoDeadlock ==
    /\ []((/\ \E t \in files : status[t] = "todo"
           /\ \A t \in files : status[t] # "in_progress")
          => get_ready_tasks(NoValue) # <<>>)
    /\ <>[]AllDone

\* C33 witness: the chain T3 -> T2 -> T1 started from all todo was worked
\* off in six commands.
C33_Witness == blockedBy = ChainGraph /\ AllDone /\ Len(history) = 6

\* C33 second case: T1 is done, T2 and T3 are todo, nothing is in
\* progress, and `ready` lists T2 alone.
C33_WitnessReady ==
    /\ blockedBy = ChainGraph
    /\ status = [t \in Tasks |-> IF t = "T1" THEN "done" ELSE "todo"]
    /\ get_ready_tasks(NoValue) = <<"T2">>

(***************************************************************************)
(* SpecRaceDeps: two concurrent invocations of dep add, each of            *)
(* `dep add T1 T2`, `dep add T2 T1` or `dep add T2 T3`, on the project of  *)
(* Init, whose graph has no edge.                                          *)
(***************************************************************************)
RaceDepInputs == {<<"T1", "T2">>, <<"T2", "T1">>, <<"T2", "T3">>}

NextRaceDeps ==
    \E p \in Procs :
        \/ calls[p].pc = "idle" /\ \E c \in RaceDepInputs : call_begin(p, "dep_add", c[1], c[2])
        \/ update_frontmatter_read(p)
        \/ update_frontmatter_write(p)

SpecRaceDeps == Init /\ [][NextRaceDeps]_vars

\* p made its cycle check before q wrote
CheckedBefore(p, q) == calls[q].wrote > 0 /\ calls[p].seen < calls[q].wrote

\* C34: every invocation reports success; as long as each invocation made
\* its check after the other one's write (serial execution) the blocked-by
\* graph is acyclic; a cycle means that both invocations have written and
\* that each made its cycle check before the other one wrote.
C34_CycleOnlyWhenInterleaved ==
    /\ out.exit = 0
    /\ ~Acyclic => \A p \in Procs : \A q \in Procs \ {p} :
                      /\ calls[p].wrote > 0
                      /\ CheckedBefore(p, q)
                      /\ calls[p].seen = 0

\* C34 witness: `dep add T1 T2` and `dep add T2 T1` both returned with
\* success and T1 and T2 wait for each other.
C34_Witness ==
    /\ \A p \in Procs : calls[p].pc = "exit" /\ calls[p].cmd = "dep_add"
    /\ out.exit = 0
    /\ blockedBy["T1"] = <<"T2">> /\ blockedBy["T2"] = <<"T1">>
    /\ "T1" \in ReachableFrom("T1")

\* C34 second case: the same two commands one after the other: the second
\* one made its check after the first one's write, and does not begin.
C34_WitnessSerial ==
    /\ \E p \in Procs : \E q \in Procs \ {p} :
          /\ calls[p].pc = "exit" /\ calls[p].target = "T1" /\ calls[p].dep = "T2"
          /\ calls[q].pc = "idle"
          /\ would_create_cycle("T2", "T1") = <<"T1", "T2">>
    /\ Acyclic

\* C35 (in SpecSession): reset leaves SESSION.yaml alone, whatever task the
\* session names: task, step and base_commit are those from before.
C35_ResetKeepsSession ==
    [][(\E t \in Ids : cmd_reset(t)) => session' = session]_vars

\* C35 witness: after `start T1` and `reset T1` the session names T1, with
\* step planning and the base commit of the start, and T1 is todo.
C35_Witness ==
    /\ history = << <<"START", "T1">>, <<"RESET", "T1">> >>
    /\ session = session_start("T1", "ok")
    /\ status["T1"] = "todo"

\* C35 second case: the same after a step change: reset kept the step.
C35_WitnessStep ==
    /\ history = << <<"START", "T1">>, <<"RESET", "T1">> >>
    /\ session.task = "T1" /\ session.step = "implementing"
    /\ status["T1"] = "todo" /\ out.msg = "reset"

\* "a session exists implies its task is in progress": not an invariant
SessionImpliesInProgress == session_active => status[session.task] = "in_progress"

\* the tasks `ready` lists after the step and did not list before it
NewlyReady ==
    LET before == get_ready_tasks(NoValue)
    IN  SelectSeq(get_ready_tasks(NoValue)', LAMBDA t : ~InSeq(t, before))

\* C36 (in SpecFlow): what a successful `done X` prints as newly unblocked
\* is the first three of the tasks that were not ready before the command
\* and are ready after it.
C36_NewlyUnblocked ==
    [][(/\ out'.msg = "completed"
        /\ \E t \in Ids, ev \in EvidenceChoices : cmd_done(t, ev))
       => out'.ids = Take(NewlyReady, 3)]_vars

\* the listing is the first three of the tasks that are ready after the
\* command, in the epic of X when X names one
UnblockedIsReadyAfter ==
    [][\A t \in Tasks, ev \in EvidenceChoices :
          (out'.msg = "completed" /\ cmd_done(t, ev))
             => out'.ids = Take(get_ready_tasks(epic[t])', 3)]_vars

\* C37 (in SpecValidate): a task that validate reports as part of a
\* dependency cycle is reachable from itself along blocked-by edges.
C37_ReportedTaskOnCycle ==
    \A i \in 1..Len(out.ids) :
        (out.msg = "issues" /\ out.ids[i][1] = "cycle")
            => out.ids[i][2] \in ReachableFrom(out.ids[i][2])

\* the reported task is one from which a cycle can be reached
ReportedTaskReachesCycle ==
    \A i \in 1..Len(out.ids) :
        (out.msg = "issues" /\ out.ids[i][1] = "cycle") => ReachesCycle(out.ids[i][2])

\* C38 (in SpecLife): `start T` on a task whose status is todo exits 0 and
\* leaves T in progress, whatever its blocked-by list holds; `start T` on a
\* task in progress exits 0 and changes no file, no log line and no
\* session, so a cleared session stays cleared.
C38_StartIgnoresBlockers ==
    [][\A t \in Tasks :
          cmd_start(t, "ok")
             => /\ (t \in files /\ status[t] = "todo")
                   => /\ out'.exit = 0 /\ out'.msg = "started"
                      /\ status'[t] = "in_progress"
                /\ (t \in files /\ status[t] = "in_progress")
                   => /\ out'.exit = 0 /\ out'.msg = "already_in_progress"
                      /\ UNCHANGED <<diskVars, history>>]_vars

\* C38 witness: T2 is blocked by T1, T1 is todo; T2 was started and then
\* completed.
C38_Witness ==
    /\ blockedBy["T2"] = <<"T1">> /\ status["T1"] = "todo"
    /\ status["T2"] = "done"
    /\ history = << <<"START", "T2">>, <<"DONE", "T2">> >>

\* C38 second case: T2 is blocked by the todo task T1 and in progress.
C38_WitnessStarted ==
    /\ blockedBy["T2"] = <<"T1">> /\ status["T1"] = "todo"
    /\ status["T2"] = "in_progress" /\ out.msg = "started" /\ out.target = "T2"

\* C38 third case: T1 was started, the session cleared, and T1 started
\* again: nothing written, no session.
C38_WitnessNoOp ==
    /\ status["T1"] = "in_progress"
    /\ history = << <<"START", "T1">> >>
    /\ session = NoSession
    /\ out.msg = "already_in_progress"

\* the blocked-by edges as a set of pairs <<task, blocker>>
EdgeSet == {e \in Tasks \X Ids : InSeq(e[2], blockedBy[e[1]])}

\* what C39 says of a step of `dep add t d` or `dep rm t d`; plain: the
\* lists for which "removes exactly the edge" is asked
DepStepLaws(t, d, plain) ==
    /\ cmd_dep_add(t, d, "blocks")
          => /\ InSeq(d, blockedBy[t]) => (out'.exit = 0 /\ UNCHANGED diskVars)
             /\ blockedBy' # blockedBy
                   => /\ EdgeSet' = EdgeSet \cup {<<t, d>>}
                      /\ remove_first(blockedBy'[t], d) = blockedBy[t]
             /\ UNCHANGED <<status, logVars>>
    /\ cmd_dep_rm(t, d)
          => /\ ~InSeq(d, blockedBy[t]) => (out'.exit = 0 /\ UNCHANGED diskVars)
             /\ (InSeq(d, blockedBy[t]) /\ plain)
                   => /\ out'.exit = 0
                      /\ EdgeSet' = EdgeSet \ {<<t, d>>}
             /\ \A u \in Tasks \ {t} : blockedBy'[u] = blockedBy[u]
             /\ Acyclic => Acyclic'
             /\ UNCHANGED <<status, logVars>>

\* C39 (in SpecCycle): `dep add T D` with D already listed and `dep rm T D`
\* with D not listed exit 0 and write nothing; `dep rm T D` removes the
\* edge T -> D and no other; the list `dep add T D` wrote, with D removed
\* again, is the list from before; dep rm keeps an acyclic graph acyclic;
\* neither command changes the log or a status.
C39_EdgeMutation ==
    [][\A t \in Tasks, d \in Ids : DepStepLaws(t, d, TRUE)]_vars

\* the same with "removes the edge" asked only where D is listed once
EdgeMutationOnPlainLists ==
    [][\A t \in Tasks, d \in Ids :
          DepStepLaws(t, d, Occurrences(d, blockedBy[t]) = 1)]_vars

====
